---- MODULE Spec2Model ----
(***************************************************************************)
(* Model of the description annotation engine of llm-metadata-describer:   *)
(* YAMLProcessor of yaml_processor.py with its collaborators               *)
(* (prompt_utils.py, llm_client.py, main.py).                              *)
(*                                                                         *)
(* Texts (ids, MAQL expressions, descriptions) are sequences of one-       *)
(* character strings, so that the regular expression of                    *)
(* extract_ids_from_maql, str.strip, str.lower and the substring test of   *)
(* validate_metric_description are computed as the code computes them.     *)
(***************************************************************************)
EXTENDS Integers, Sequences, FiniteSets, TLC

(***************************************************************************)
(* Bounds of the model.                                                    *)
(***************************************************************************)
\* number of files enumerated under analytics_model/metrics
NumMetricFiles == 2
\* faults of the collaborators that a run survives: replies of the generation
\* service that are not a plain text (empty, blank, or naming a dataset) and
\* failed reads of an entity document
MaxFaults == 1
\* processes run one after the other on the same workspace
MaxRuns == 2

\* the longest expression tried on its own, in tokens
MaxTokens == 3

\* the longest bucket, list of buckets and list of filters tried on their own
MaxItems == 2

\* how often a function is applied to the same argument
MaxApplications == 2

(***************************************************************************)
(* Characters and texts.                                                   *)
(***************************************************************************)
LowerLetters ==
    <<"a","b","c","d","e","f","g","h","i","j","k","l","m",
      "n","o","p","q","r","s","t","u","v","w","x","y","z">>

UpperLetters ==
    <<"A","B","C","D","E","F","G","H","I","J","K","L","M",
      "N","O","P","Q","R","S","T","U","V","W","X","Y","Z">>

Digits == {"0","1","2","3","4","5","6","7","8","9"}

Range(s) == {s[i] : i \in DOMAIN s}

\* the character class [a-zA-Z0-9_] of the pattern
NameChars == Range(LowerLetters) \cup Range(UpperLetters) \cup Digits \cup {"_"}

\* what \b of a str pattern takes for a word character (\w): the class above
\* and every other alphanumeric character; "é" stands for those
WordChars == NameChars \cup {"é"}

\* the characters str.strip() removes
Whitespace == {" ", "\n", "\t"}

SubSeqFrom(s, i) == SubSeq(s, i, Len(s))

\* s[i:i+len(w)] == w
StartsWithAt(s, i, w) ==
    /\ i + Len(w) - 1 <= Len(s)
    /\ SubSeq(s, i, i + Len(w) - 1) = w

\* str.startswith
StartsWith(s, w) == StartsWithAt(s, 1, w)

\* w in s, for texts
Contains(s, w) == \E i \in 1..(Len(s) + 1) : StartsWithAt(s, i, w)

LowerChar(c) ==
    IF \E i \in DOMAIN UpperLetters : UpperLetters[i] = c
    THEN LowerLetters[CHOOSE i \in DOMAIN UpperLetters : UpperLetters[i] = c]
    ELSE c

\* str.lower
Lower(s) == [i \in DOMAIN s |-> LowerChar(s[i])]

\* str.strip
Strip(s) ==
    LET keep == {i \in DOMAIN s : s[i] \notin Whitespace}
    IN  IF keep = {} THEN <<>>
        ELSE LET lo == CHOOSE i \in keep : \A j \in keep : i <= j
                 hi == CHOOSE i \in keep : \A j \in keep : j <= i
             IN  SubSeq(s, lo, hi)

(***************************************************************************)
(* extract_ids_from_maql:                                                  *)
(*   re.findall(r'\b(fact|attribute|metric|label|dataset)/([a-zA-Z0-9_]+)\b') *)
(***************************************************************************)
Categories ==
    << <<"f","a","c","t">>,
       <<"a","t","t","r","i","b","u","t","e">>,
       <<"m","e","t","r","i","c">>,
       <<"l","a","b","e","l">>,
       <<"d","a","t","a","s","e","t">> >>

\* \b at the gap before position i (between s[i-1] and s[i])
WordBoundary(s, i) ==
    LET before == i > 1 /\ i - 1 <= Len(s) /\ s[i - 1] \in WordChars
        after  == i >= 1 /\ i <= Len(s) /\ s[i] \in WordChars
    IN  before # after

\* the position after the longest run of [a-zA-Z0-9_] that starts at i
RECURSIVE NameEnd(_, _)
NameEnd(s, i) ==
    IF i <= Len(s) /\ s[i] \in NameChars THEN NameEnd(s, i + 1) ELSE i

\* the ends e (exclusive) for which s[i..e-1] matches the whole pattern with
\* category cat: the name may be any non-empty prefix of the run (the
\* matcher backtracks from the longest) that ends at a \b
MatchEnds(s, i, cat) ==
    IF WordBoundary(s, i) /\ StartsWithAt(s, i, cat \o <<"/">>)
    THEN LET n0 == i + Len(cat) + 1
         IN  {e \in (n0 + 1)..NameEnd(s, n0) : WordBoundary(s, e)}
    ELSE {}

\* the end of the match the matcher finds at position i, 0 when none: the
\* first alternative that matches, with the longest name
MatchAt(s, i) ==
    LET cats == {c \in DOMAIN Categories : MatchEnds(s, i, Categories[c]) # {}}
    IN  IF cats = {} THEN 0
        ELSE LET c    == CHOOSE c \in cats : \A d \in cats : c <= d
                 ends == MatchEnds(s, i, Categories[c])
             IN  CHOOSE e \in ends : \A f \in ends : f <= e

\* the category whose alternative matches at position i (when MatchAt # 0)
CategoryAt(s, i) ==
    Categories[CHOOSE c \in DOMAIN Categories :
                  /\ MatchEnds(s, i, Categories[c]) # {}
                  /\ \A d \in DOMAIN Categories :
                        MatchEnds(s, i, Categories[d]) # {} => c <= d]

\* a slip: a match that was found before left out
RECURSIVE FindAllDistinct(_, _)
FindAllDistinct(s, i) ==
    IF i > Len(s) THEN <<>>
    ELSE LET e == MatchAt(s, i)
         IN  IF e = 0 THEN FindAllDistinct(s, i + 1)
             ELSE LET type_ == CategoryAt(s, i)
                      id_   == SubSeq(s, i + Len(type_) + 1, e - 1)
                      rest  == FindAllDistinct(s, e)
                  IN  << <<type_, id_>> >>
                      \o SelectSeq(rest, LAMBDA m : m # <<type_, id_>>)

\* re.findall: the leftmost matches, not overlapping, each as the pair of
\* its two groups <<type_, id_>>
RECURSIVE FindAll(_, _)
FindAll(s, i) ==
    IF i > Len(s) THEN <<>>
    ELSE LET e == MatchAt(s, i)
         IN  IF e = 0 THEN FindAll(s, i + 1)
             ELSE LET type_ == CategoryAt(s, i)
                      id_   == SubSeq(s, i + Len(type_) + 1, e - 1)
                  IN  << <<type_, id_>> >> \o FindAll(s, e)

\* [f"{type_}/{id_}" for type_, id_ in matches]
extract_ids_from_maql(maql) ==
    LET matches == FindAll(maql, 1)
    IN  [k \in DOMAIN matches |-> matches[k][1] \o <<"/">> \o matches[k][2]]

MetricPrefix == <<"m","e","t","r","i","c","/">>

\* a slip: 'metric/' looked for in the expression itself
has_metric_references_in_text(maql) == Contains(maql, MetricPrefix)

\* any(ref_id.startswith('metric/') for ref_id in referenced_ids)
has_metric_references(maql) ==
    LET referenced_ids == extract_ids_from_maql(maql)
    IN  \E k \in DOMAIN referenced_ids : StartsWith(referenced_ids[k], MetricPrefix)

\* a slip: the test without lower()
validate_metric_description_cased(description) ==
    ~Contains(description, <<"d","a","t","a","s","e","t">>)

\* "dataset" not in description.lower()
validate_metric_description(description) ==
    ~Contains(Lower(description), <<"d","a","t","a","s","e","t">>)

(***************************************************************************)
(* Entities and documents.                                                 *)
(*                                                                         *)
(* An optional value (a key of a dict that may be missing, a file that may *)
(* be empty) is <<>> when missing and <<v>> when present.  Every document  *)
(* is a record of the same shape; the keys a category does not use are     *)
(* empty.                                                                  *)
(***************************************************************************)
\* element.get('id') of an element with no 'id' key: None
NoneId == <<"None">>

MissingIds == {NoneId, <<>>}

ID_date      == <<"d","a","t","e">>
ID_dataset   == <<"d","a","t","a","s","e","t","/","d">>
ID_attribute == <<"a","t","t","r","i","b","u","t","e","/","r">>
ID_label     == <<"l","a","b","e","l","/","r">>
ID_fact      == <<"f","a","c","t","/","x">>
ID_metric_a  == <<"m","e","t","r","i","c","/","a">>
ID_metric_b  == <<"m","e","t","r","i","c","/","b">>
ID_metric_c  == <<"m","e","t","r","i","c","/","c">>
ID_dataset_e == <<"d","a","t","a","s","e","t","/","e">>
ID_fact_y    == <<"f","a","c","t","/","y">>
ID_viz       == <<"v","i","z">>
ID_dash      == <<"d","a","s","h">>

\* a description a document carries before the run
OldText == <<"o","l","d">>

Element(id, description) == [id |-> id, description |-> description]

Attribute(id, description, labels) ==
    [id |-> id, description |-> description, labels |-> labels]

Doc(id, description) ==
    [id |-> id, description |-> description, attributes |-> <<>>,
     facts |-> <<>>, maql |-> <<>>, buckets |-> <<>>, filters |-> <<>>,
     sections |-> <<>>]

DateSamples == {Doc(ID_date, <<>>)}

DatasetSamples ==
    {[Doc(ID_dataset, <<OldText>>) EXCEPT
        !.attributes = <<Attribute(ID_attribute, <<>>, <<Element(ID_label, <<>>)>>)>>,
        !.facts = <<Element(ID_fact, <<OldText>>)>>],
     [Doc(ID_dataset, <<>>) EXCEPT
        !.attributes = <<Attribute(NoneId, <<>>, <<>>)>>]}

\* content.maql of the metric samples
MAQL_fact     == <<"S","U","M","(">> \o ID_fact \o <<")">>
MAQL_a_plus_x == ID_metric_a \o <<"+">> \o ID_fact
MAQL_b        == <<"{">> \o ID_metric_b \o <<"}">>
MAQL_c        == <<"{">> \o ID_metric_c \o <<"}">>
MAQL_glued    == <<"x">> \o ID_metric_a \o <<"*","f","a","c","t","/">> \o ID_metric_b

MetricSamples ==
    {[Doc(ID_metric_a, <<>>) EXCEPT !.maql = MAQL_glued],
     [Doc(ID_metric_b, <<OldText>>) EXCEPT !.maql = MAQL_a_plus_x],
     [Doc(ID_metric_c, <<>>) EXCEPT !.maql = MAQL_b],
     [Doc(<<>>, <<>>) EXCEPT !.maql = MAQL_fact]}

\* items of a bucket of content.buckets
MeasureItem(id) == [kind |-> "measureDefinition", id |-> id, dateDataSets |-> <<>>]

PreviousPeriodItem(dateDataSets, measureIdentifier) ==
    [kind |-> "previousPeriodMeasure", id |-> measureIdentifier,
     dateDataSets |-> dateDataSets]

\* an item with no measure, or a measure of another definition
OtherItem == [kind |-> "other", id |-> <<>>, dateDataSets |-> <<>>]

RelativeDateFilter(id) == [kind |-> "relativeDateFilter", id |-> id]

OtherFilter == [kind |-> "other", id |-> <<>>]

VizSamples ==
    {[Doc(ID_viz, <<>>) EXCEPT
        !.buckets = << <<MeasureItem(ID_metric_a), OtherItem>>,
                       <<PreviousPeriodItem(<<ID_date>>, ID_metric_b)>> >>,
        !.filters = <<OtherFilter, RelativeDateFilter(ID_date)>>]}

\* a widget of an item of a section of content.layout
Widget(insight, drills) == [insight |-> insight, drills |-> drills]

DashboardSamples ==
    {[Doc(ID_dash, <<>>) EXCEPT
        !.sections = << <<Widget(<<ID_viz>>, <<ID_dash>>), Widget(<<>>, <<>>)>> >>]}

\* the sequences of n distinct members of S
Arrangements(S, n) ==
    {s \in [1..n -> S] : \A i, j \in 1..n : i # j => s[i] # s[j]}

\* a file that holds document d
File(d) == <<d>>

FilesOf(docs) == [i \in DOMAIN docs |-> File(docs[i])]

\* a second dataset document, with a fact of its own
SecondDataset ==
    [Doc(ID_dataset_e, <<>>) EXCEPT !.facts = <<Element(ID_fact_y, <<>>)>>]

\* a workspace with two dataset documents, and a metric ahead of the
\* metric it refers to
TwoDatasetTree ==
    [date_instances |-> <<File(Doc(ID_date, <<>>))>>,
     datasets |->
        <<File([Doc(ID_dataset, <<OldText>>) EXCEPT
                  !.attributes = <<Attribute(ID_attribute, <<>>,
                                             <<Element(ID_label, <<>>)>>)>>,
                  !.facts = <<Element(ID_fact, <<OldText>>)>>]),
          File(SecondDataset)>>,
     metrics |->
        <<File([Doc(ID_metric_c, <<>>) EXCEPT !.maql = MAQL_b]),
          File([Doc(ID_metric_b, <<OldText>>) EXCEPT !.maql = MAQL_a_plus_x])>>,
     visualization_objects |->
        <<File([Doc(ID_viz, <<>>) EXCEPT
                  !.buckets = << <<MeasureItem(ID_metric_a), OtherItem>>,
                                 <<PreviousPeriodItem(<<ID_date>>, ID_metric_b)>> >>,
                  !.filters = <<OtherFilter, RelativeDateFilter(ID_date)>>])>>,
     analytical_dashboards |->
        <<File([Doc(ID_dash, <<>>) EXCEPT
                  !.sections = << <<Widget(<<ID_viz>>, <<ID_dash>>),
                                    Widget(<<>>, <<>>)>> >>])>>]

\* a workspace with two metrics that refer to each other
CyclicTree ==
    [TwoDatasetTree EXCEPT
        !.datasets = <<File(SecondDataset)>>,
        !.metrics =
            <<File([Doc(ID_metric_b, <<>>) EXCEPT !.maql = MAQL_c]),
              File([Doc(ID_metric_c, <<>>) EXCEPT !.maql = MAQL_b])>>]

\* the document trees of the remote workspace; the order of a directory is
\* the order in which glob enumerates it
Trees ==
    {[date_instances |-> <<File(dt)>>,
      datasets |-> <<File(ds)>>,
      metrics |-> FilesOf(ms),
      visualization_objects |-> <<File(vo)>>,
      analytical_dashboards |-> <<File(db)>>] :
        dt \in DateSamples, ds \in DatasetSamples,
        ms \in {a \in Arrangements(MetricSamples, NumMetricFiles) :
                    \A i, j \in DOMAIN a : i # j => a[i].id # a[j].id},
        vo \in VizSamples, db \in DashboardSamples}
    \cup {TwoDatasetTree, CyclicTree}

EmptyTree ==
    [date_instances |-> <<>>, datasets |-> <<>>, metrics |-> <<>>,
     visualization_objects |-> <<>>, analytical_dashboards |-> <<>>]

\* the mappings descriptions.yaml may hold before the first run
SeedIds == {ID_metric_a, ID_dataset}

SeedMaps == {[k \in S |-> OldText] : S \in {{}, SeedIds}}

EmptyMap == [k \in {} |-> <<>>]

\* descriptions.yaml: absent, not parsable, or holding a mapping
DescriptionFiles ==
    {[state |-> "absent", map |-> EmptyMap], [state |-> "corrupt", map |-> EmptyMap]}
    \cup {[state |-> "ok", map |-> m] : m \in SeedMaps}

\* what the generation service may answer (message.content, before strip)
PlainReply == <<"S","u","m">>
NamedReply == <<" ","D","a","t","a","S","e","t","s","\n">>
BlankReply == <<" ","\n">>
EmptyReply == <<>>

Replies == {PlainReply, NamedReply, BlankReply, EmptyReply}

OddReplies == Replies \ {PlainReply}

\* batch_size: int = 50
DefaultBatchSize == 50

BatchSizes == {1, DefaultBatchSize}

(***************************************************************************)
(* generate_descriptions: the file types, in the order of its calls of     *)
(* process_files_in_batches.                                               *)
(***************************************************************************)
\* a slip: the metrics that depend on metrics before those that do not
FileTypesMetricFirst ==
    <<"date instance", "dataset", "metric", "non-metric",
      "visualization object", "dashboard">>

\* a slip: the dashboards before what they show
FileTypesDashboardFirst ==
    <<"dashboard", "date instance", "dataset", "non-metric", "metric",
      "visualization object">>

FileTypes ==
    <<"date instance", "dataset", "non-metric", "metric",
      "visualization object", "dashboard">>

\* the directory get_file_paths globs for a file type ("" matches nothing)
DirOf(file_type) ==
    CASE file_type = "date instance"        -> "date_instances"
      [] file_type = "dataset"              -> "datasets"
      [] file_type = "non-metric"           -> "metrics"
      [] file_type = "metric"               -> "metrics"
      [] file_type = "visualization object" -> "visualization_objects"
      [] file_type = "dashboard"            -> "analytical_dashboards"
      [] OTHER                              -> ""

\* the paths of the files of a file type, in enumeration order
\* a slip: the metric files that another metric file refers to put first
get_file_paths_referenced_first(tree, file_type) ==
    IF DirOf(file_type) = "" THEN <<>>
    ELSE LET dir   == DirOf(file_type)
             paths == [n \in DOMAIN tree[dir] |-> [dir |-> dir, n |-> n]]
             Referenced(path) ==
                 /\ file_type = "metric"
                 /\ tree[dir][path.n] # <<>>
                 /\ \E m \in DOMAIN tree[dir] :
                       /\ m # path.n
                       /\ tree[dir][m] # <<>>
                       /\ \E k \in DOMAIN extract_ids_from_maql(tree[dir][m][1].maql) :
                             extract_ids_from_maql(tree[dir][m][1].maql)[k]
                                 = tree[dir][path.n][1].id
         IN  SelectSeq(paths, Referenced)
             \o SelectSeq(paths, LAMBDA path : ~Referenced(path))

get_file_paths(tree, file_type) ==
    IF DirOf(file_type) = "" THEN <<>>
    ELSE [n \in DOMAIN tree[DirOf(file_type)] |->
            [dir |-> DirOf(file_type), n |-> n]]

(***************************************************************************)
(* Reference extraction of prompt_utils.py.                                *)
(***************************************************************************)
RECURSIVE Flatten(_)
Flatten(ss) == IF ss = <<>> THEN <<>> ELSE Head(ss) \o Flatten(Tail(ss))

\* dict.get(key, default)
Get(d, key, default) == IF key \in DOMAIN d THEN d[key] ELSE default

\* a slip: the measure of a previous period before its date dimensions
ItemIdsMeasureFirst(item) ==
    CASE item.kind = "measureDefinition"     -> <<item.id>>
      [] item.kind = "previousPeriodMeasure" -> <<item.id>> \o item.dateDataSets
      [] OTHER                               -> <<>>

\* what one item of a bucket appends to identifiers
ItemIds(item) ==
    CASE item.kind = "measureDefinition"     -> <<item.id>>
      [] item.kind = "previousPeriodMeasure" -> item.dateDataSets \o <<item.id>>
      [] OTHER                               -> <<>>

FilterIds(filter_item) ==
    IF filter_item.kind = "relativeDateFilter" THEN <<filter_item.id>> ELSE <<>>

extract_ids_from_visualization_object(content) ==
    LET buckets == Get(content, "buckets", <<>>)
        filters == Get(content, "filters", <<>>)
    IN  Flatten([b \in DOMAIN buckets |->
                    Flatten([i \in DOMAIN buckets[b] |->
                                ItemIds(buckets[b][i])])])
        \o Flatten([f \in DOMAIN filters |-> FilterIds(filters[f])])

\* the subscripts of lines 28-32 and 36 have no default: a field that is not
\* there is a KeyError
ItemRaises(item) ==
    CASE item.kind = "measureDefinition"     -> "id" \notin DOMAIN item
      [] item.kind = "previousPeriodMeasure" ->
             "dateDataSets" \notin DOMAIN item \/ "id" \notin DOMAIN item
      [] OTHER                               -> FALSE

FilterRaises(filter_item) ==
    filter_item.kind = "relativeDateFilter" /\ "id" \notin DOMAIN filter_item

VisualizationObjectRaises(content) ==
    LET buckets == Get(content, "buckets", <<>>)
        filters == Get(content, "filters", <<>>)
    IN  \/ \E b \in DOMAIN buckets :
              \E i \in DOMAIN buckets[b] : ItemRaises(buckets[b][i])
        \/ \E f \in DOMAIN filters : FilterRaises(filters[f])

\* a call of the function: what it returns, or that it raised
CallExtractIdsFromVisualizationObject(content) ==
    IF VisualizationObjectRaises(content)
    THEN [raised |-> TRUE, identifiers |-> <<>>]
    ELSE [raised |-> FALSE,
          identifiers |-> extract_ids_from_visualization_object(content)]

\* a slip: the drill targets of a widget before its insight
WidgetIdsDrillsFirst(widget) ==
    SelectSeq(widget.drills, LAMBDA target_id : target_id # <<>>)
    \o (IF widget.insight # <<>> /\ widget.insight[1] # <<>>
        THEN widget.insight ELSE <<>>)

\* the insight id of a widget, when it has one that is not empty, then
\* its drill targets
WidgetIds(widget) ==
    (IF widget.insight # <<>> /\ widget.insight[1] # <<>>
     THEN widget.insight ELSE <<>>)
    \o SelectSeq(widget.drills, LAMBDA target_id : target_id # <<>>)

extract_ids_from_dashboard(layout) ==
    LET sections == Get(layout, "sections", <<>>)
    IN  Flatten([s \in DOMAIN sections |->
                    Flatten([i \in DOMAIN sections[s] |->
                                WidgetIds(sections[s][i])])])

(***************************************************************************)
(* generate_prompt of prompt_utils.py.                                     *)
(***************************************************************************)
NoDescriptionAvailable ==
    <<"N","o"," ","d","e","s","c","r","i","p","t","i","o","n"," ",
      "a","v","a","i","l","a","b","l","e">>

\* a slip: the ids the cache holds nothing for left out
ContextLinesOfCached(descriptions, extracted_ids) ==
    LET cached == SelectSeq(extracted_ids, LAMBDA id_ : id_ \in DOMAIN descriptions)
    IN  [k \in DOMAIN cached |->
            [id |-> cached[k], description |-> descriptions[cached[k]]]]

\* a slip: the cache not looked into
ContextLinesOfPlaceholders(descriptions, extracted_ids) ==
    [k \in DOMAIN extracted_ids |->
        [id |-> extracted_ids[k], description |-> NoDescriptionAvailable]]

\* descriptions_dict.get(id_, 'No description available'), one line per id
ContextLines(descriptions, extracted_ids) ==
    [k \in DOMAIN extracted_ids |->
        [id |-> extracted_ids[k],
         description |->
            IF extracted_ids[k] \in DOMAIN descriptions
            THEN descriptions[extracted_ids[k]]
            ELSE NoDescriptionAvailable]]

\* data.get('id', ''): the default only stands in for a missing key
PromptId(element) == IF element.id = NoneId THEN <<>> ELSE element.id

\* a slip: the prompt of a metric showing what the cache holds for the ids
\* its expression refers to
generate_prompt_expanding(element, description_type, descriptions, extracted_ids) ==
    IF description_type \in {"metric", "non-metric"}
    THEN [template |-> "metric", description_type |-> description_type,
          id |-> PromptId(element), maql |-> element.maql,
          context |-> ContextLines(descriptions,
                                   extract_ids_from_maql(element.maql)),
          fit |-> 128]
    ELSE [template |-> IF description_type \in {"visualization object", "dashboard"}
                       THEN description_type ELSE "other",
          description_type |-> description_type,
          id |-> PromptId(element), maql |-> <<>>,
          context |-> IF description_type \in {"visualization object", "dashboard"}
                      THEN ContextLines(descriptions, extracted_ids) ELSE <<>>,
          fit |-> IF description_type = "dashboard" THEN 256 ELSE 128]

\* the prompt, as the values its text is formatted from: the branch taken,
\* the fields shown, the context shown and the length it asks for
generate_prompt(element, description_type, descriptions, extracted_ids) ==
    CASE description_type \in {"metric", "non-metric"} ->
            [template |-> "metric", description_type |-> description_type,
             id |-> PromptId(element), maql |-> element.maql,
             context |-> <<>>, fit |-> 128]
      [] description_type = "visualization object" ->
            [template |-> "visualization object",
             description_type |-> description_type,
             id |-> PromptId(element), maql |-> <<>>,
             context |-> ContextLines(descriptions, extracted_ids), fit |-> 128]
      [] description_type = "dashboard" ->
            [template |-> "dashboard", description_type |-> description_type,
             id |-> PromptId(element), maql |-> <<>>,
             context |-> ContextLines(descriptions, extracted_ids), fit |-> 256]
      [] OTHER ->
            [template |-> "other", description_type |-> description_type,
             id |-> PromptId(element), maql |-> <<>>,
             context |-> <<>>, fit |-> 128]

(***************************************************************************)
(* State.                                                                  *)
(***************************************************************************)
VARIABLES
    remote,             \* the catalog of the remote workspace
    files,              \* the document tree under layout_root_path
    descriptions_file,  \* root_path / "descriptions.yaml"
    descriptions_dict,  \* self.descriptions_dict
    batch_size,         \* self.batch_size
    pc,                 \* where the process is
    phase,              \* the index in FileTypes of the file type in work
    file_paths,         \* file_paths of process_files_in_batches
    batch_i,            \* i of process_files_in_batches
    batch_j,            \* how many files of the batch are done
    data,               \* data of process_file: <<>> or <<the document>>
    queue,              \* the calls of _update_element_description that
                        \* the _process_ method of the file is still to make
    call,               \* the generation call in flight: <<>> or <<record>>
    faults,             \* the faults of the collaborators so far
    run,                \* the number of this process among the runs
    prior,              \* <<>>, or <<the mapping the process before this one
                        \* persisted>>
    finished,           \* history: the {phase, path} process_file returned from
    entered,            \* history: the {phase, path, element} that entered
                        \* _update_element_description
    last,               \* history: <<>> or <<how the latest call of
                        \* _update_element_description ended>>
    calls,              \* history: the ids generation calls were issued for
    written,            \* history: the {phase, path} save_yaml_file wrote
    input,              \* a function applied on its own: <<>>, or the record
                        \* of its name and its argument
    output,             \* what the function returned, one entry per
                        \* application
    environ,            \* os.environ once load_dotenv has run: each setting
                        \* <<>> or <<its text>>
    stack               \* the frames of generate_metric_description of
                        \* lmm_descriptor.py, the innermost last

vars ==
    <<remote, files, descriptions_file, descriptions_dict, batch_size, pc,
      phase, file_paths, batch_i, batch_j, data, queue, call, faults, run, prior, finished, entered, last, calls,
      written, input, output, environ, stack>>

envVars == <<remote, batch_size, run, prior, input, output, environ, stack>>

\* one more fault, when the bound allows it
Fault ==
    /\ faults < MaxFaults
    /\ faults' = faults + 1

loopVars == <<phase, file_paths, batch_i, batch_j>>

fileVars == <<data, queue>>

historyVars == <<finished, entered, last, calls, written>>

(***************************************************************************)
(* load_descriptions and the constructor.                                  *)
(***************************************************************************)
\* a slip: the file never read
load_descriptions_never(file) == EmptyMap

\* a slip: a file that gives nothing answered with a stock cache
load_descriptions_stocked(file) ==
    IF file.state = "ok" THEN file.map ELSE [k \in SeedIds |-> OldText]

\* yaml.safe_load(file) or {}; {} when the file is absent or does not load
load_descriptions(file) ==
    IF file.state = "ok" THEN file.map ELSE EmptyMap

(***************************************************************************)
(* load_env.py: the settings main() starts from.                           *)
(***************************************************************************)
Text_true  == <<"t","r","u","e">>
Text_True  == <<"T","r","u","e">>
Text_1     == <<"1">>
Text_yes   == <<"y","e","s">>
Text_YES   == <<"Y","E","S">>
Text_false == <<"f","a","l","s","e">>
Text_on    == <<"o","n">>
Text_layout == <<"w","o","r","k","s","p","a","c","e","_","l","a","y","o","u",
                 "t","_","d","i","r","e","c","t","o","r","y">>

\* os.environ.get(key, default)
EnvironGet(env, key, default) ==
    IF env[key] = <<>> THEN default ELSE env[key]

\* a slip: the switch taken as set whatever its text
load_config_enabling(env) ==
    [hostname |-> EnvironGet(env, "GOODDATA_HOSTNAME", <<>>),
     api_token |-> EnvironGet(env, "GOODDATA_API_TOKEN", <<>>),
     llm_api_token |-> EnvironGet(env, "LLM_API_TOKEN", <<>>),
     workspace_id |-> EnvironGet(env, "WORKSPACE_ID", <<>>),
     layout_root_directory |->
         EnvironGet(env, "LAYOUT_ROOT_DIRECTORY", <<Text_layout>>),
     enable_load_workspace |-> TRUE]

\* the dictionary load_config builds, a setting that is absent being <<>>
load_config(env) ==
    [hostname |-> EnvironGet(env, "GOODDATA_HOSTNAME", <<>>),
     api_token |-> EnvironGet(env, "GOODDATA_API_TOKEN", <<>>),
     llm_api_token |-> EnvironGet(env, "LLM_API_TOKEN", <<>>),
     workspace_id |-> EnvironGet(env, "WORKSPACE_ID", <<>>),
     layout_root_directory |->
         EnvironGet(env, "LAYOUT_ROOT_DIRECTORY", <<Text_layout>>),
     enable_load_workspace |->
         Lower(EnvironGet(env, "ENABLE_LOAD_WORKSPACE", <<Text_true>>)[1])
             \in {Text_true, Text_1, Text_yes}]

required_keys ==
    {"hostname", "api_token", "llm_api_token", "workspace_id",
     "layout_root_directory"}

missing_keys_none(config) == {}

missing_keys(config) == {key \in required_keys : config[key] = <<>>}

\* the environments: each required setting absent or present, the switch
\* absent or one of a few texts
Settings ==
    {"GOODDATA_HOSTNAME", "GOODDATA_API_TOKEN", "LLM_API_TOKEN",
     "WORKSPACE_ID"}

Switches ==
    {<<>>, <<Text_True>>, <<Text_1>>, <<Text_YES>>, <<Text_false>>,
     <<Text_on>>}

Environs ==
    {[key \in Settings \cup {"LAYOUT_ROOT_DIRECTORY", "ENABLE_LOAD_WORKSPACE"}
        |-> CASE key \in present -> <<<<"v">>>>
              [] key = "ENABLE_LOAD_WORKSPACE" -> switch
              [] OTHER -> <<>>] :
        present \in SUBSET Settings, switch \in Switches}

\* every setting given, the switch left to its default
FullEnviron ==
    [key \in Settings \cup {"LAYOUT_ROOT_DIRECTORY", "ENABLE_LOAD_WORKSPACE"}
        |-> IF key \in Settings THEN <<<<"v">>>> ELSE <<>>]

\* what YAMLProcessor.__init__ leaves, the histories empty
Constructed(file) ==
    /\ descriptions_dict = load_descriptions(file)
    /\ pc = "constructed"
    /\ phase = 0
    /\ file_paths = <<>>
    /\ batch_i = 0
    /\ batch_j = 0
    /\ data = <<>>
    /\ queue = <<>>
    /\ call = <<>>
    /\ finished = {}
    /\ entered = {}
    /\ last = <<>>
    /\ calls = <<>>
    /\ written = {}

\* the same, of the next state
ConstructedNext(file) ==
    /\ descriptions_dict' = load_descriptions(file)
    /\ pc' = "constructed"
    /\ phase' = 0
    /\ file_paths' = <<>>
    /\ batch_i' = 0
    /\ batch_j' = 0
    /\ data' = <<>>
    /\ queue' = <<>>
    /\ call' = <<>>
    /\ finished' = {}
    /\ entered' = {}
    /\ last' = <<>>
    /\ calls' = <<>>
    /\ written' = {}

Init ==
    /\ remote \in Trees
    /\ files = EmptyTree
    /\ descriptions_file \in DescriptionFiles
    /\ batch_size \in BatchSizes
    /\ faults = 0
    /\ run = 1
    /\ prior = <<>>
    /\ input = <<>>
    /\ output = <<>>
    /\ environ = FullEnviron
    /\ stack = <<>>
    /\ Constructed(descriptions_file)

(***************************************************************************)
(* The elements of a document and the calls a _process_ method makes.      *)
(***************************************************************************)
\* the element of document d at a path: <<>> is the document itself
ElementAt(d, path) ==
    CASE path = <<>>             -> d
      [] path[1] = "facts"       -> d.facts[path[2]]
      [] Len(path) = 2           -> d.attributes[path[2]]
      [] OTHER                   -> d.attributes[path[2]].labels[path[4]]

\* element['description'] = description
SetDescription(d, path, description) ==
    CASE path = <<>>       -> [d EXCEPT !.description = <<description>>]
      [] path[1] = "facts" ->
            [d EXCEPT !.facts[path[2]].description = <<description>>]
      [] Len(path) = 2     ->
            [d EXCEPT !.attributes[path[2]].description = <<description>>]
      [] OTHER             ->
            [d EXCEPT !.attributes[path[2]].labels[path[4]].description =
                          <<description>>]

Update(path, element_type, extracted_ids) ==
    [path |-> path, element_type |-> element_type, extracted_ids |-> extracted_ids]

\* _process_dataset: the dataset, each attribute followed by its labels,
\* then the facts
RECURSIVE AttributeUpdates(_, _)
AttributeUpdates(d, i) ==
    IF i > Len(d.attributes) THEN <<>>
    ELSE <<Update(<<"attributes", i>>, "attribute", <<>>)>>
         \o [j \in DOMAIN d.attributes[i].labels |->
                Update(<<"attributes", i, "labels", j>>, "label", <<>>)]
         \o AttributeUpdates(d, i + 1)

\* a slip: the facts ahead of the attributes
process_dataset_facts_first(d) ==
    <<Update(<<>>, "dataset", <<>>)>>
    \o [k \in DOMAIN d.facts |-> Update(<<"facts", k>>, "fact", <<>>)]
    \o AttributeUpdates(d, 1)

process_dataset(d) ==
    <<Update(<<>>, "dataset", <<>>)>>
    \o AttributeUpdates(d, 1)
    \o [k \in DOMAIN d.facts |-> Update(<<"facts", k>>, "fact", <<>>)]

process_non_metric(d) ==
    IF ~has_metric_references(d.maql)
    THEN <<Update(<<>>, "non-metric", <<>>)>> ELSE <<>>

\* a slip: the dependent phase taking every metric document
process_metric_unguarded(d) == <<Update(<<>>, "metric", <<>>)>>

process_metric(d) ==
    IF has_metric_references(d.maql)
    THEN <<Update(<<>>, "metric", <<>>)>> ELSE <<>>

process_visualization_object(d) ==
    <<Update(<<>>, "visualization object",
             extract_ids_from_visualization_object(d))>>

process_dashboard(d) ==
    <<Update(<<>>, "dashboard", extract_ids_from_dashboard(d))>>

process_date_instance(d) == <<Update(<<>>, "date instance", <<>>)>>

\* the dispatch of process_file
Dispatch(d, file_type) ==
    CASE file_type = "dataset"              -> process_dataset(d)
      [] file_type = "date instance"        -> process_date_instance(d)
      [] file_type = "non-metric"           -> process_non_metric(d)
      [] file_type = "metric"               -> process_metric(d)
      [] file_type = "visualization object" -> process_visualization_object(d)
      [] file_type = "dashboard"            -> process_dashboard(d)
      [] OTHER                              -> <<>>

(***************************************************************************)
(* Actions.                                                                *)
(***************************************************************************)
\* a slip: the failure logged and the loop over the files resumed
ExitIgnored == pc' = "loop"

\* sys.exit(1): the process ends where it is
Exit1 == pc' = "aborted"

\* store_current_layout: the first statement of generate_descriptions
StoreCurrentLayout ==
    /\ pc = "constructed"
    /\ \/ /\ files' = remote
          /\ phase' = 1
          /\ pc' = "phase"
       \/ /\ Exit1
          /\ UNCHANGED <<files, phase>>
    /\ UNCHANGED <<envVars, descriptions_file, descriptions_dict, file_paths,
                   batch_i, batch_j, fileVars, call, faults,
                   historyVars>>

\* process_files_in_batches, up to its loop
ProcessFilesInBatches ==
    /\ pc = "phase"
    /\ file_paths' = get_file_paths(files, FileTypes[phase])
    /\ batch_i' = 0
    /\ batch_j' = 0
    /\ pc' = "loop"
    /\ UNCHANGED <<envVars, files, descriptions_file, descriptions_dict, phase,
                   fileVars, call, faults, historyVars>>

\* a slip: every batch sliced from the start of the list
BatchFromStart ==
    SubSeq(file_paths, 1,
           IF batch_size < Len(file_paths) THEN batch_size ELSE Len(file_paths))

\* batch = file_paths[i:i + self.batch_size]
Batch == SubSeq(file_paths, batch_i + 1,
                IF batch_i + batch_size < Len(file_paths)
                THEN batch_i + batch_size ELSE Len(file_paths))

\* yaml_file of the inner loop
yaml_file == Batch[batch_j + 1]

\* a slip: the same file taken again
NextFileAgain ==
    /\ batch_j' = batch_j
    /\ batch_i' = batch_i
    /\ finished' = finished \cup {[phase |-> phase, path |-> yaml_file]}
    /\ pc' = "loop"

\* the loops of process_files_in_batches after process_file returned
NextFile ==
    /\ IF batch_j + 1 < Len(Batch)
       THEN /\ batch_j' = batch_j + 1
            /\ batch_i' = batch_i
       ELSE /\ batch_j' = 0
            /\ batch_i' = batch_i + batch_size
    /\ finished' = finished \cup {[phase |-> phase, path |-> yaml_file]}
    /\ pc' = "loop"

\* process_file, up to the dispatch: load_yaml_file gives None when the
\* read fails, and an empty file loads as None too
ProcessFile ==
    /\ pc = "loop"
    /\ batch_i < Len(file_paths)
    /\ \/ /\ \/ Fault
             \/ /\ files[yaml_file.dir][yaml_file.n] = <<>>
                /\ UNCHANGED faults
          /\ NextFile
          /\ UNCHANGED <<fileVars>>
       \/ /\ files[yaml_file.dir][yaml_file.n] # <<>>
          /\ data' = files[yaml_file.dir][yaml_file.n]
          /\ queue' = Dispatch(data'[1], FileTypes[phase])
          /\ pc' = "element"
          /\ UNCHANGED <<batch_i, batch_j, faults, finished>>
    /\ UNCHANGED <<envVars, files, descriptions_file, descriptions_dict, phase,
                   file_paths, call, entered, last, calls, written>>

\* a slip: the cache not consulted
InCacheNever(element_id) == FALSE

\* element_id in self.descriptions_dict
InCache(element_id) == element_id \in DOMAIN descriptions_dict

\* a slip: the cache started afresh with the new entry
PutFresh(descriptions, element_id, description) ==
    [k \in {element_id} |-> description]

\* a slip: the entities the element refers to committed along with it
PutAlsoReferenced(descriptions, element_id, description) ==
    LET referenced ==
            IF call = <<>> THEN {}
            ELSE {call[1].update.extracted_ids[n] :
                     n \in DOMAIN call[1].update.extracted_ids}
    IN  [k \in DOMAIN descriptions \cup {element_id} \cup referenced |->
            IF k = element_id \/ k \notin DOMAIN descriptions
            THEN description ELSE descriptions[k]]

\* self.descriptions_dict[element_id] = description
Put(descriptions, element_id, description) ==
    [k \in DOMAIN descriptions \cup {element_id} |->
        IF k = element_id THEN description ELSE descriptions[k]]

\* how a call of _update_element_description ended
Ended(update, element, outcome, description) ==
    <<[phase |-> phase, path |-> yaml_file, element |-> update.path,
       element_type |-> update.element_type, id |-> element.id,
       before |-> element.description, outcome |-> outcome,
       description |-> description]>>

\* _update_element_description, up to the return of the cached branch or
\* to the generation call
UpdateElementDescription ==
    /\ pc = "element"
    /\ queue # <<>>
    /\ LET update     == Head(queue)
           element    == ElementAt(data[1], update.path)
           element_id == element.id
       IN  /\ entered' = entered \cup
                  {[phase |-> phase, path |-> yaml_file, element |-> update.path]}
           /\ IF InCache(element_id)
              THEN /\ data' = <<SetDescription(data[1], update.path,
                                               descriptions_dict[element_id])>>
                   /\ queue' = Tail(queue)
                   /\ last' = Ended(update, element, "cached",
                                    descriptions_dict[element_id])
                   /\ UNCHANGED <<pc, call, calls>>
              ELSE /\ call' = <<[update |-> update, id |-> element_id,
                                 prompt |-> generate_prompt(element,
                                     update.element_type, descriptions_dict,
                                     update.extracted_ids)]>>
                   /\ calls' = Append(calls, element_id)
                   /\ pc' = "calling"
                   /\ UNCHANGED <<data, queue, last>>
    /\ UNCHANGED <<envVars, files, descriptions_file, descriptions_dict,
                   loopVars, faults, finished, written>>

\* a slip: the test of the text for emptiness left out
AcceptedUntested(element_type, description) ==
    element_type # "metric" \/ validate_metric_description(description)

\* description and (element_type != "metric" or validate_metric_description)
Accepted(element_type, description) ==
    /\ description # <<>>
    /\ element_type # "metric" \/ validate_metric_description(description)

\* LLMClient.call returns, and _update_element_description goes on to its end
LLMClientCall ==
    /\ pc = "calling"
    /\ \/ /\ Exit1
          /\ UNCHANGED <<descriptions_dict, data, queue, call, faults, last>>
       \/ \E content \in Replies :
            LET update      == call[1].update
                element     == ElementAt(data[1], update.path)
                element_id  == call[1].id
                description == Strip(content)
            IN  /\ IF content \in OddReplies THEN Fault ELSE UNCHANGED faults
                /\ IF Accepted(update.element_type, description)
                   THEN /\ data' = <<SetDescription(data[1], update.path, description)>>
                        /\ descriptions_dict' =
                              Put(descriptions_dict, element_id, description)
                        /\ last' = Ended(update, element, "committed", description)
                   ELSE /\ last' = Ended(update, element, "invalid", description)
                        /\ UNCHANGED <<descriptions_dict, data>>
                /\ queue' = Tail(queue)
                /\ call' = <<>>
                /\ pc' = "element"
    /\ UNCHANGED <<envVars, files, descriptions_file, loopVars, finished,
                   entered, calls, written>>

\* a slip: the layout put back as it was stored when a write fails
RolledBack(tree, path) == remote

\* open(yaml_file, 'w') went through and the dump did not: the file is cut
Truncated(tree, path) == [tree EXCEPT ![path.dir][path.n] = <<>>]

\* save_yaml_file, the last statement of process_file; a failed write
\* leaves the file as it was or cut off
SaveYamlFile ==
    /\ pc = "element"
    /\ queue = <<>>
    /\ \/ /\ files' = [files EXCEPT ![yaml_file.dir][yaml_file.n] = data]
          /\ written' = written \cup {[phase |-> phase, path |-> yaml_file]}
          /\ data' = <<>>
          /\ NextFile
       \/ /\ \/ UNCHANGED files
             \/ files' = Truncated(files, yaml_file)
          /\ Exit1
          /\ UNCHANGED <<data, batch_i, batch_j, finished, written>>
    /\ UNCHANGED <<envVars, descriptions_file, descriptions_dict, phase,
                   file_paths, queue, call, faults, entered,
                   last, calls>>

\* process_files_in_batches returns, and generate_descriptions goes on
ReturnFromBatches ==
    /\ pc = "loop"
    /\ batch_i >= Len(file_paths)
    /\ IF phase < Len(FileTypes)
       THEN /\ phase' = phase + 1
            /\ pc' = "phase"
       ELSE /\ pc' = "save_descriptions"
            /\ UNCHANGED phase
    /\ UNCHANGED <<envVars, files, descriptions_file, descriptions_dict,
                   file_paths, batch_i, batch_j, fileVars, call, faults, historyVars>>

\* a slip: an empty mapping dumped
DumpedAfresh(descriptions) == [state |-> "ok", map |-> EmptyMap]

\* yaml.safe_dump(self.descriptions_dict, file): the file after the dump
Dumped(descriptions) == [state |-> "ok", map |-> descriptions]

\* save_descriptions, the last statement of generate_descriptions; a failed
\* write leaves the file as it was or cut off
SaveDescriptions ==
    /\ pc = "save_descriptions"
    /\ \/ /\ descriptions_file' = Dumped(descriptions_dict)
          /\ pc' = "generated"
       \/ /\ \/ UNCHANGED descriptions_file
             \/ descriptions_file' = [state |-> "corrupt", map |-> EmptyMap]
          /\ Exit1
    /\ UNCHANGED <<envVars, files, descriptions_dict, loopVars, fileVars, call,
                   faults, historyVars>>

\* load_workspace of main.py, after generate_descriptions returned
LoadWorkspace ==
    /\ pc = "generated"
    /\ LET enable_load == load_config(environ).enable_load_workspace
       IN  \/ /\ enable_load
              /\ remote' = files
           \* not enabled, or the push raised and was logged
           \/ UNCHANGED remote
    /\ pc' = "exited"
    /\ UNCHANGED <<files, descriptions_file, descriptions_dict, batch_size, run,
                   prior, loopVars, fileVars, call, faults,
                   historyVars, input, output, environ, stack>>

Next ==
    \/ StoreCurrentLayout
    \/ ProcessFilesInBatches
    \/ ProcessFile
    \/ UpdateElementDescription
    \/ LLMClientCall
    \/ SaveYamlFile
    \/ ReturnFromBatches
    \/ SaveDescriptions
    \/ LoadWorkspace

Spec == Init /\ [][Next]_vars

\* the process has a next statement: it has neither returned from main nor
\* exited
HasNext == pc \notin {"exited", "aborted"}

\* the process is sequential and goes on while it has a next statement:
\* WF_vars(Next), with ENABLED <<Next>>_vars written out as HasNext
SpecLive ==
    Init /\ [][Next]_vars /\ (<>[]HasNext => []<><<Next>>_vars)

(***************************************************************************)
(* Reruns: main() run again on the workspace a completed run left, with    *)
(* the first run starting from no descriptions.yaml.                       *)
(***************************************************************************)
Restart ==
    /\ pc = "exited"
    /\ run < MaxRuns
    /\ run' = run + 1
    /\ prior' = <<descriptions_file.map>>
    /\ ConstructedNext(descriptions_file)
    /\ UNCHANGED <<remote, files, descriptions_file, batch_size, faults,
                   input, output, environ, stack>>

InitRerun ==
    /\ Init
    /\ load_descriptions(descriptions_file) = EmptyMap
    /\ batch_size = DefaultBatchSize

NextRerun ==
    \/ Next
    \/ Restart

SpecRerun == InitRerun /\ [][NextRerun]_vars

(***************************************************************************)
(* main() from its first statement: load_config, then the engine.          *)
(***************************************************************************)
\* descriptions.yaml as main() may find it: also a file of no content,
\* for which yaml.safe_load returns None
EmptyFile == [state |-> "empty", map |-> EmptyMap]

\* main() is entered: no engine yet, nothing under layout_root_path
InitMain ==
    /\ remote = CyclicTree
    /\ files = EmptyTree
    /\ descriptions_file \in DescriptionFiles \cup {EmptyFile}
    /\ batch_size = DefaultBatchSize
    /\ faults = 0
    /\ run = 1
    /\ prior = <<>>
    /\ input = <<>>
    /\ output = <<>>
    /\ environ \in Environs
    /\ stack = <<>>
    /\ descriptions_dict = EmptyMap
    /\ pc = "main"
    /\ phase = 0
    /\ file_paths = <<>>
    /\ batch_i = 0
    /\ batch_j = 0
    /\ data = <<>>
    /\ queue = <<>>
    /\ call = <<>>
    /\ finished = {}
    /\ entered = {}
    /\ last = <<>>
    /\ calls = <<>>
    /\ written = {}

\* config = load_config(), and the constructors that follow it in main()
LoadConfig ==
    /\ pc = "main"
    /\ IF missing_keys(load_config(environ)) # {}
       THEN /\ Exit1
            /\ UNCHANGED <<descriptions_dict, loopVars, fileVars, call,
                           historyVars>>
       ELSE ConstructedNext(descriptions_file)
    /\ UNCHANGED <<envVars, files, descriptions_file, faults>>

NextMain ==
    \/ LoadConfig
    \/ Next

SpecMain == InitMain /\ [][NextMain]_vars

(***************************************************************************)
(* Notions the properties share.                                           *)
(***************************************************************************)
DatasetWord == <<"d","a","t","a","s","e","t">>

\* the phase of the specification an entity document belongs to: the one
\* whose per-entity transition covers it
EntityPhase(path) ==
    CASE path.dir = "date_instances"        -> 1
      [] path.dir = "datasets"              -> 2
      [] path.dir = "metrics"               ->
            IF has_metric_references(remote[path.dir][path.n][1].maql)
            THEN 4 ELSE 3
      [] path.dir = "visualization_objects" -> 5
      [] OTHER                              -> 6

\* the paths of the documents of the workspace
AllPaths ==
    UNION {{[dir |-> d, n |-> n] : n \in DOMAIN remote[d]} : d \in DOMAIN remote}

\* process_file has returned from the document in the phase it belongs to
EntityDone(path) ==
    [phase |-> EntityPhase(path), path |-> path] \in finished

\* a document is read and in work, up to its write
InProcessFile == pc \in {"element", "calling"}

\* _update_element_description is running, or is the next thing to run
InTransition == pc = "calling" \/ (pc = "element" /\ queue # <<>>)

FileTypeIndex(file_type) ==
    CHOOSE p \in DOMAIN FileTypes : FileTypes[p] = file_type

\* the ids of the entities of a tree
ElementIds(d) ==
    {d.id}
    \cup {d.attributes[i].id : i \in DOMAIN d.attributes}
    \cup UNION {{d.attributes[i].labels[j].id : j \in DOMAIN d.attributes[i].labels} :
                   i \in DOMAIN d.attributes}
    \cup {d.facts[k].id : k \in DOMAIN d.facts}

EntityIds(tree) ==
    UNION {UNION {ElementIds(tree[d][n][1]) :
                     n \in {m \in DOMAIN tree[d] : tree[d][m] # <<>>}} :
              d \in DOMAIN tree}

(***************************************************************************)
(* C1.  Phase order.                                                       *)
(***************************************************************************)
\* C1, as claimed: while a document of phase q is read, in work or being
\* written, every entity of every phase p < q has finished its processing.
C1_NothingTouchedBeforeEarlierPhases ==
    InProcessFile =>
        \A path \in AllPaths :
            EntityPhase(path) < EntityPhase(yaml_file) => EntityDone(path)

\* C1, amended: an entity enters its per-entity transition only in the phase
\* it belongs to, and then every entity of every earlier phase has finished
\* its processing.  (A metric document is read and written in both metric
\* phases, so it is touched outside its phase.)
C1_TransitionsFollowPhaseOrder ==
    InTransition =>
        /\ EntityPhase(yaml_file) = phase
        /\ \A path \in AllPaths : EntityPhase(path) < phase => EntityDone(path)

\* C1, witness: the generation call of a dashboard is in flight after the
\* five phases before it
C1_Witness ==
    /\ pc = "calling"
    /\ phase = 6
    /\ Cardinality(finished) >= 5 + NumMetricFiles

(***************************************************************************)
(* C2.  The cache is consulted before every generation call.               *)
(***************************************************************************)
\* C2: whenever a generation call is in flight for an entity, the id of the
\* entity is not a key of the description cache.
C2_NoCallForCachedId ==
    pc = "calling" => call[1].id \notin DOMAIN descriptions_dict

\* C2, witness: a call is in flight after an entity took the cached path
C2_Witness ==
    /\ pc = "calling"
    /\ descriptions_dict # EmptyMap
    /\ last # <<>>
    /\ last[1].outcome = "cached"

(***************************************************************************)
(* C3.  The cache is append-only within a run.                             *)
(***************************************************************************)
\* C3: no step of a run removes a key of the description cache or changes
\* the value it holds.
C3_CacheAppendOnly ==
    [][\A k \in DOMAIN descriptions_dict :
          /\ k \in DOMAIN descriptions_dict'
          /\ descriptions_dict'[k] = descriptions_dict[k]]_vars

\* C3, witness: the cache holds an entry it was loaded with and one the run
\* committed after it
C3_Witness ==
    /\ ID_dataset \in DOMAIN descriptions_dict
    /\ descriptions_dict[ID_dataset] = OldText
    /\ last # <<>>
    /\ last[1].outcome = "committed"
    /\ last[1].id \in DOMAIN descriptions_dict
    /\ phase = 6

(***************************************************************************)
(* C4.  Non-dependent metrics before dependent metrics.                    *)
(***************************************************************************)
NonDependentMetricPaths ==
    {path \in AllPaths :
        path.dir = "metrics" /\ ~has_metric_references(remote[path.dir][path.n][1].maql)}

\* C4: while the generation call of a dependent metric is in flight, every
\* non-dependent metric document has been through the non-dependent-metric
\* phase, and each of them that was read there and is in the cache carries
\* the description the cache holds.
C4_NonDependentMetricsFirst ==
    (pc = "calling" /\ call[1].update.element_type = "metric") =>
        \A path \in NonDependentMetricPaths :
            LET p3  == FileTypeIndex("non-metric")
                doc == files[path.dir][path.n][1]
            IN  /\ [phase |-> p3, path |-> path] \in finished
                /\ ([phase |-> p3, path |-> path, element |-> <<>>] \in entered
                    /\ doc.id \in DOMAIN descriptions_dict)
                       => doc.description = <<descriptions_dict[doc.id]>>

\* C4, witness: the call of metric/b, which refers to metric/a, is in flight
\* and the cache holds the description generated for metric/a
C4_Witness ==
    /\ pc = "calling"
    /\ call[1].id = ID_metric_b
    /\ ID_metric_a \in DOMAIN descriptions_dict
    /\ descriptions_dict[ID_metric_a] = Strip(PlainReply)
    /\ \E path \in NonDependentMetricPaths : files[path.dir][path.n][1].id = ID_metric_a

(***************************************************************************)
(* C5.  has_metric_references splits the metrics in two.                   *)
(***************************************************************************)
MetricCategory == <<"m","e","t","r","i","c">>

\* some match of the pattern has the category metric
SomeMetricMatch(maql) ==
    LET matches == FindAll(maql, 1)
    IN  \E k \in DOMAIN matches : matches[k][1] = MetricCategory

MetricPaths == {path \in AllPaths : path.dir = "metrics"}

\* C5: has_metric_references is true of the expression of a metric document
\* iff one of the ids extracted from it has the category metric; a metric
\* document that was read enters the per-entity transition in the
\* non-dependent phase iff the result is false and in the dependent phase
\* iff it is true, in no other phase and never in both; and when no
\* collaborator failed, every metric document has entered it once the two
\* metric phases are over.
C5_MetricSplit ==
    /\ (InProcessFile /\ yaml_file.dir = "metrics") =>
          LET here    == [phase |-> phase, path |-> yaml_file, element |-> <<>>]
              depends == has_metric_references(data[1].maql)
          IN  /\ depends <=> SomeMetricMatch(data[1].maql)
              /\ phase \in {FileTypeIndex("non-metric"), FileTypeIndex("metric")}
              /\ (queue # <<>> \/ here \in entered)
                    <=> (phase = FileTypeIndex("metric") <=> depends)
    /\ \A e \in entered :
          e.path.dir = "metrics" =>
              /\ e.phase \in {FileTypeIndex("non-metric"), FileTypeIndex("metric")}
              /\ \A f \in entered : f.path = e.path => f.phase = e.phase
    /\ (phase > FileTypeIndex("metric") /\ faults = 0) =>
          \A path \in MetricPaths : \E e \in entered : e.path = path

\* C5, witness: of two metric documents one entered the transition in the
\* non-dependent phase and the other in the dependent phase
C5_Witness ==
    \E e1, e2 \in entered :
        /\ e1.path.dir = "metrics"
        /\ e2.path.dir = "metrics"
        /\ e1.path # e2.path
        /\ e1.phase = 3
        /\ e2.phase = 4

C7_RejectedMetricLeftAlone ==
    [][(/\ pc = "calling"
        /\ call[1].update.element_type = "metric"
        /\ pc' = "element"
        /\ Contains(Lower(last'[1].description), DatasetWord))
       => /\ last'[1].outcome = "invalid"
          /\ last'[1].id = call[1].id
          /\ data' = data
          /\ descriptions_dict' = descriptions_dict
          /\ call[1].id \notin DOMAIN descriptions_dict'
          /\ calls' = calls
          /\ call' = <<>>
          /\ queue' = Tail(queue)]_vars

\* C7, witness: a dependent metric that had a description was rejected for a
\* text that names a dataset in capitals, and still has the description
C7_Witness ==
    /\ pc = "element"
    /\ last # <<>>
    /\ last[1].outcome = "invalid"
    /\ last[1].element_type = "metric"
    /\ last[1].description = Strip(NamedReply)
    /\ last[1].before = <<OldText>>
    /\ last[1].path = yaml_file
    /\ data # <<>>
    /\ data[1].description = <<OldText>>
    /\ last[1].id \notin DOMAIN descriptions_dict

(***************************************************************************)
(* C8.  Validation in the non-dependent-metric phase.                      *)
(***************************************************************************)
\* C8, as claimed: a generated text that contains "dataset" is rejected for
\* a metric of either metric phase.
C8_BothMetricPhasesValidate ==
    (/\ last # <<>>
     /\ last[1].element_type \in {"metric", "non-metric"}
     /\ Contains(Lower(last[1].description), DatasetWord))
        => last[1].outcome \in {"invalid", "cached"}

(***************************************************************************)
(* C9.  An entity without an id.                                           *)
(***************************************************************************)
\* C9, as claimed: no generation call is issued for an entity whose id is
\* missing or empty, and the update of such an entity ends in no outcome.
C9_MissingIdNeverProceeds ==
    /\ pc = "calling" => call[1].id \notin MissingIds
    /\ last # <<>> => last[1].id \notin MissingIds

(***************************************************************************)
(* C10.  The keys of the cache.                                            *)
(***************************************************************************)
\* C10, as claimed: no key of the description cache is empty or null.
C10_NoMissingKey ==
    \A k \in DOMAIN descriptions_dict : k \notin MissingIds

(***************************************************************************)
(* C11.  A generation call that fails.                                     *)
(***************************************************************************)
\* what a run has done to the world and recorded of itself
effectVars ==
    <<remote, files, descriptions_file, descriptions_dict, data, queue, call,
      finished, entered, last, calls, written>>

\* C11: a generation call that ends without an outcome for its entity ends
\* the process: the step changes nothing but the position, which becomes
\* aborted, and an aborted process takes no further step (no retry, no
\* other entity, no call, no write).
C11_ServiceErrorEndsTheRun ==
    [][/\ (pc = "calling" /\ pc' # pc /\ last' = last)
             => (pc' = "aborted" /\ UNCHANGED effectVars /\ UNCHANGED loopVars)
       /\ pc = "aborted" => UNCHANGED vars]_vars

\* C11, witness: the process is aborted with its generation call still in
\* flight, after it finished other documents
C11_Witness ==
    /\ pc = "aborted"
    /\ call # <<>>
    /\ finished # {}
    /\ Len(calls) >= 2

(***************************************************************************)
(* C12.  What an abort leaves of the cache.                                *)
(***************************************************************************)
\* a process started now would load every entry of the cache in memory,
\* but perhaps those of the given ids
PersistedBut(ids) ==
    LET stored == load_descriptions(descriptions_file)
    IN  \A k \in DOMAIN descriptions_dict \ ids :
            /\ k \in DOMAIN stored
            /\ stored[k] = descriptions_dict[k]

\* C12, as claimed: when the process is aborted on a generation call or on
\* the write of a document, every entry of the cache is in descriptions.yaml
\* but perhaps those of the entities of the document in work.
C12_AbortLosesNoCommit ==
    (pc = "aborted" /\ data # <<>>) => PersistedBut(ElementIds(data[1]))

(***************************************************************************)
(* C13.  The snapshot of the cache.                                        *)
(***************************************************************************)
DashboardPaths == {path \in AllPaths : path.dir = "analytical_dashboards"}

\* C13: descriptions.yaml changes in no step but the one that leaves
\* save_descriptions, which is reached once, when process_file has returned
\* from every dashboard document; a run gets past it only by that step, and
\* then the file holds the cache in memory and nothing else: every entry the
\* run loaded, as loaded, and for the rest only ids the run issued a call
\* for.
C13_SnapshotPersistedOnceAtTheEnd ==
    [][/\ descriptions_file' # descriptions_file => pc = "save_descriptions"
       /\ pc = "save_descriptions" =>
             /\ phase = Len(FileTypes)
             /\ \A path \in DashboardPaths :
                   [phase |-> phase, path |-> path] \in finished
       /\ pc' = "save_descriptions" => pc \in {"loop", "save_descriptions"}
       /\ pc' = "generated" =>
             LET loaded == load_descriptions(descriptions_file)
             IN  /\ pc \in {"save_descriptions", "generated"}
                 /\ descriptions_file'.state = "ok"
                 /\ descriptions_file'.map = descriptions_dict
                 /\ \A k \in DOMAIN loaded :
                       /\ k \in DOMAIN descriptions_file'.map
                       /\ descriptions_file'.map[k] = loaded[k]
                 /\ \A k \in DOMAIN descriptions_file'.map :
                       k \in DOMAIN loaded \/ k \in Range(calls)
       /\ pc \in {"generated", "exited"} => pc' \in {"generated", "exited"}]_vars

\* C13, witness: a run that loaded two entries and committed others has
\* completed, and the file holds them all
C13_Witness ==
    /\ pc = "exited"
    /\ descriptions_file.state = "ok"
    /\ descriptions_file.map = descriptions_dict
    /\ SeedIds \subseteq DOMAIN descriptions_file.map
    /\ Range(calls) \cap DOMAIN descriptions_file.map # {}
    /\ descriptions_file.map[ID_dataset] = OldText

(***************************************************************************)
(* C14.  store_current_layout.                                             *)
(***************************************************************************)
\* C14: the layout is stored in the first step of a process, before any
\* document is read, call issued or write made, and in no later step; the
\* step either stores the catalog and starts phase 1 or aborts the process
\* with nothing changed, and an aborted process takes no further step.
C14_LayoutStoredOnceOrAbort ==
    [][/\ pc = "constructed" =>
             /\ phase = 0
             /\ finished = {} /\ entered = {} /\ written = {} /\ calls = <<>>
             /\ descriptions_dict = load_descriptions(descriptions_file)
       /\ (pc = "constructed" /\ pc' # pc) =>
             \/ /\ pc' = "phase"
                /\ phase' = 1
                /\ files' = remote
             \/ /\ pc' = "aborted"
                /\ UNCHANGED effectVars
                /\ UNCHANGED loopVars
       /\ pc # "constructed" => (pc' # "constructed" /\ phase' >= 1)
       /\ pc = "aborted" => UNCHANGED vars]_vars

\* C14, witness: a process that loaded a cache is aborted before phase 1
C14_Witness ==
    /\ pc = "aborted"
    /\ phase = 0
    /\ files = EmptyTree
    /\ descriptions_dict # EmptyMap

(***************************************************************************)
(* C15.  A document that cannot be read.                                   *)
(***************************************************************************)
\* how many files of file_paths process_file has returned from
FilesDone ==
    IF batch_i >= Len(file_paths) THEN Len(file_paths) ELSE batch_i + batch_j

\* C15: when process_file returns for want of a document, no call was
\* issued for it, the cache, the files and descriptions.yaml are as they
\* were, no write was made, and the process is in the loop of the same
\* phase, one file further.
C15_ReadFailureSkipsTheDocument ==
    [][(pc = "loop" /\ finished' # finished) =>
          /\ finished' = finished \cup {[phase |-> phase, path |-> yaml_file]}
          /\ UNCHANGED <<remote, files, descriptions_file, descriptions_dict,
                         data, queue, call, entered, last, calls, written>>
          /\ pc' = "loop"
          /\ phase' = phase
          /\ file_paths' = file_paths
          /\ FilesDone' = FilesDone + 1]_vars

\* C15, witness: a run has completed, with calls and writes, though one
\* document could not be read in any phase
C15_Witness ==
    /\ pc = "exited"
    /\ \E path \in AllPaths :
          /\ \A w \in written : w.path # path
          /\ \A e \in entered : e.path # path
          /\ \E f \in finished : f.path = path
    /\ written # {}
    /\ calls # <<>>

(***************************************************************************)
(* C16.  A write that fails.                                               *)
(***************************************************************************)
\* C16: the step that writes a document either writes it and goes on, or
\* aborts the process; the step that writes descriptions.yaml either writes
\* it and completes generate_descriptions, or aborts the process; an abort
\* leaves the other files, the cache and the histories as they were, and an
\* aborted process takes no further step.
C16_WriteFailureEndsTheRun ==
    [][/\ (pc = "element" /\ queue = <<>> /\ pc' # pc) =>
             \/ /\ pc' = "loop"
                /\ written' = written \cup {[phase |-> phase, path |-> yaml_file]}
                /\ files' = [files EXCEPT ![yaml_file.dir][yaml_file.n] = data]
             \/ /\ pc' = "aborted"
                /\ \A d \in DOMAIN files : \A n \in DOMAIN files[d] :
                      [dir |-> d, n |-> n] # yaml_file => files'[d][n] = files[d][n]
                /\ UNCHANGED <<remote, descriptions_file, descriptions_dict, data,
                               call, finished, entered, last, calls, written>>
                /\ UNCHANGED loopVars
       /\ (pc = "save_descriptions" /\ pc' # pc) =>
             \/ /\ pc' = "generated"
                /\ descriptions_file' = Dumped(descriptions_dict)
             \/ /\ pc' = "aborted"
                /\ UNCHANGED <<remote, files, descriptions_dict, data, call,
                               finished, entered, last, calls, written>>
                /\ UNCHANGED loopVars
       /\ pc = "aborted" => UNCHANGED vars]_vars

\* C16, witness: the process is aborted on the write of a document, which is
\* cut off, after calls and with documents still to come
C16_Witness ==
    /\ pc = "aborted"
    /\ call = <<>>
    /\ data # <<>>
    /\ files[yaml_file.dir][yaml_file.n] = <<>>
    /\ calls # <<>>
    /\ phase < Len(FileTypes)

(***************************************************************************)
(* C17.  Documents that processing left as they were.                      *)
(***************************************************************************)
\* C17, as claimed: save_yaml_file writes a document only when processing
\* changed it.
C17_WrittenOnlyIfChanged ==
    [][written' # written => data # files[yaml_file.dir][yaml_file.n]]_vars

(***************************************************************************)
(* C18.  The context of a prompt.                                          *)
(***************************************************************************)
CompositeTypes == {"visualization object", "dashboard"}

\* the ids _process_visualization_object or _process_dashboard extracts from
\* the document in work
ExtractedIds ==
    IF call[1].update.element_type = "visualization object"
    THEN extract_ids_from_visualization_object(data[1])
    ELSE extract_ids_from_dashboard(data[1])

\* what the context is to show for an id
Shown(id_) ==
    IF id_ \in DOMAIN descriptions_dict
    THEN descriptions_dict[id_] ELSE NoDescriptionAvailable

\* C18: while the generation call of a visualization object or a dashboard
\* is in flight, the context of its prompt has one line for each id
\* extracted from the document, in the order of extraction and as often as
\* the id was extracted, and the line of an id shows the id and the
\* description the cache holds for it, or 'No description available' when
\* the cache holds none.
C18_ContextLinePerExtractedId ==
    (pc = "calling" /\ call[1].update.element_type \in CompositeTypes) =>
        LET context == call[1].prompt.context
        IN  /\ call[1].update.extracted_ids = ExtractedIds
            /\ Len(context) = Len(ExtractedIds)
            /\ \A k \in DOMAIN ExtractedIds :
                  /\ context[k].id = ExtractedIds[k]
                  /\ context[k].description = Shown(ExtractedIds[k])

\* C18, witness: the prompt of the visualization object has four lines, two
\* of them for the same id, one with a cached description and one with the
\* placeholder
C18_Witness ==
    /\ pc = "calling"
    /\ call[1].update.element_type = "visualization object"
    /\ LET context == call[1].prompt.context
       IN  /\ Len(context) = 4
           /\ context[2].id = ID_date
           /\ context[4] = context[2]
           /\ context[2].description = Strip(PlainReply)
           /\ ID_metric_b \notin DOMAIN descriptions_dict
           /\ context[3] = [id |-> ID_metric_b, description |-> NoDescriptionAvailable]

(***************************************************************************)
(* C19.  References to entities of earlier phases.                         *)
(***************************************************************************)
\* the documents of earlier phases with the id, that entered the transition
\* in their phase
EarlierEntered(id_) ==
    {path \in AllPaths :
        /\ EntityPhase(path) < phase
        /\ files[path.dir][path.n] # <<>>
        /\ files[path.dir][path.n][1].id = id_
        /\ [phase |-> EntityPhase(path), path |-> path, element |-> <<>>] \in entered}

\* C19: the step that builds the prompt of a visualization object or a
\* dashboard is the only step its process can take when the entity is not
\* cached, whatever the cache holds for its references; it issues the call
\* of that entity and no other and leaves the cache as it is; in the prompt, a reference the cache has an entry for is
\* shown with it, which is the description the document of the referenced
\* entity got in its earlier phase, and a reference the cache has no entry
\* for is shown with the placeholder.
C19_ContextShowsTheCacheAsItIs ==
    [][(/\ pc = "element"
        /\ queue # <<>>
        /\ Head(queue).element_type \in CompositeTypes
        /\ data[1].id \notin DOMAIN descriptions_dict)
       => /\ pc' = "calling"
          /\ calls' = Append(calls, data[1].id)
          /\ call'[1].id = data[1].id
          /\ UNCHANGED <<descriptions_dict, files, data, queue>>
          /\ \A k \in DOMAIN call'[1].prompt.context :
                LET line == call'[1].prompt.context[k]
                IN  IF line.id \in DOMAIN descriptions_dict
                    THEN /\ line.description = descriptions_dict[line.id]
                         /\ \A path \in EarlierEntered(line.id) :
                               files[path.dir][path.n][1].description =
                                   <<line.description>>
                    ELSE line.description = NoDescriptionAvailable]_vars

\* C19, witness: the call of the dashboard is in flight; the visualization
\* object it refers to was committed in the phase before and is shown with
\* its description, and the dashboard itself, which it refers to as well, is
\* shown with the placeholder
C19_Witness ==
    /\ pc = "calling"
    /\ call[1].id = ID_dash
    /\ files.visualization_objects[1][1].description = <<Strip(PlainReply)>>
    /\ call[1].prompt.context =
          <<[id |-> ID_viz, description |-> Strip(PlainReply)],
            [id |-> ID_dash, description |-> NoDescriptionAvailable]>>

(***************************************************************************)
(* C20.  The length a prompt asks for.                                     *)
(***************************************************************************)
LeafTypes == {"dataset", "attribute", "label", "fact", "date instance"}

\* C20, as claimed: a prompt asks for 128 characters for a dataset, an
\* attribute, a label, a fact or a date instance and for 256 characters for
\* a metric of either phase, a visualization object or a dashboard.
C20_LengthBudgetByCategory ==
    pc = "calling" =>
        call[1].prompt.fit =
            IF call[1].update.element_type \in LeafTypes THEN 128 ELSE 256

(***************************************************************************)
(* The functions on their own: each is applied once to an argument drawn   *)
(* from a bounded set, in a process that does nothing else.                *)
(***************************************************************************)
\* the pieces expressions are put together from: references, operators and
\* what may stand next to a reference
MaqlTokens ==
    {<<"m","e","t","r","i","c","/","a">>, <<"f","a","c","t","/","x">>,
     <<"d","a","t","a","s","e","t","/","d","_","1">>, <<" ","+"," ">>,
     <<"/">>, <<"x">>, <<"é">>}

MaqlExample ==
    <<"m","e","t","r","i","c","/","t","o","t","a","l","_","s","a","l","e","s"," ","+"," ","f","a","c","t","/","u","n","i","t","_","p","r","i","c","e">>
    \o <<" ","-"," ","m","e","t","r","i","c","/","d","i","s","c","o","u","n","t">>

MaqlInputs ==
    {Flatten(ts) : ts \in UNION {[1..n -> MaqlTokens] : n \in 0..MaxTokens}}
    \cup {MaqlExample}

\* the sequences of at most n members of S
Seqs(S, n) == UNION {[1..k -> S] : k \in 0..n}

ID_revenue == <<"m","e","t","r","i","c","/","r","e","v","e","n","u","e">>

\* items of a bucket: whole ones, and ones whose recognized key is there
\* while fields under it are missing
VizItems ==
    {MeasureItem(ID_metric_a), PreviousPeriodItem(<<ID_date>>, ID_revenue),
     PreviousPeriodItem(<<ID_date, ID_metric_a>>, ID_metric_a), OtherItem,
     [kind |-> "measureDefinition"],
     [kind |-> "previousPeriodMeasure", dateDataSets |-> <<ID_date>>]}

VizFilters ==
    {RelativeDateFilter(ID_date), OtherFilter, [kind |-> "relativeDateFilter"]}

\* a payload with no recognized shape
NoShape == [version |-> "2"]

VizBuckets ==
    {<<bucket>> : bucket \in Seqs(VizItems, MaxItems)}
    \cup Seqs(Seqs(VizItems, 1), MaxItems)

VizInputs ==
    {NoShape}
    \cup {[version |-> "2", buckets |-> bs] : bs \in VizBuckets}
    \cup {[version |-> "2", filters |-> fs] : fs \in Seqs(VizFilters, MaxItems)}
    \cup {[version |-> "2", buckets |-> bs, filters |-> fs] :
             bs \in VizBuckets, fs \in Seqs(VizFilters, MaxItems)}

\* widgets: with an insight, with none, with one whose id is empty, and
\* with drills, some of them without a target id
DashWidgets ==
    {Widget(insight, drills) :
        insight \in {<<>>, <<ID_viz>>, << <<>> >>},
        drills \in {<<>>, <<ID_dash>>, <<ID_dash, ID_viz>>, <<<<>>, ID_dash>>,
                    <<ID_viz, ID_viz>>}}

\* a layout with no sections
EmptyLayout == [type |-> "IDashboardLayout"]

DashInputs ==
    {EmptyLayout}
    \cup {[type |-> "IDashboardLayout", sections |-> ss] :
             ss \in {<<section>> : section \in Seqs(DashWidgets, MaxItems)}
                    \cup Seqs(Seqs(DashWidgets, 1), MaxItems)}

\* what generate_prompt is given besides the cache
PromptInputs ==
    {[element |-> e, description_type |-> t, extracted_ids |-> ids] :
        e \in MetricSamples \cup VizSamples \cup DashboardSamples
               \cup DateSamples,
        t \in {"metric", "non-metric", "visualization object", "dashboard",
               "date instance"},
        ids \in Seqs({ID_metric_a, ID_date}, MaxItems)}

Applied(fn, arg) == [fn |-> fn, arg |-> arg]

\* the engine constructed on an empty workspace, and left alone
Idle ==
    /\ remote = EmptyTree
    /\ files = EmptyTree
    /\ descriptions_file \in DescriptionFiles
    /\ batch_size = DefaultBatchSize
    /\ faults = 0
    /\ run = 1
    /\ prior = <<>>
    /\ environ = FullEnviron
    /\ stack = <<>>
    /\ Constructed(descriptions_file)

engineVars ==
    <<remote, files, descriptions_file, descriptions_dict, batch_size, pc,
      phase, file_paths, batch_i, batch_j, data, queue, call, faults, run,
      prior, finished, entered, last, calls, written, environ, stack>>

InitPure ==
    /\ Idle
    /\ input \in
          {Applied("extract_ids_from_maql", maql) : maql \in MaqlInputs}
          \cup {Applied("extract_ids_from_visualization_object", content) :
                   content \in VizInputs}
          \cup {Applied("extract_ids_from_dashboard", layout) :
                   layout \in DashInputs}
          \cup {Applied("generate_prompt", given) : given \in PromptInputs}
    /\ output = <<>>

ExtractIdsFromMaql ==
    /\ input.fn = "extract_ids_from_maql"
    /\ Len(output) < MaxApplications
    /\ output' = Append(output, extract_ids_from_maql(input.arg))
    /\ UNCHANGED <<engineVars, input>>

ExtractIdsFromVisualizationObject ==
    /\ input.fn = "extract_ids_from_visualization_object"
    /\ Len(output) < MaxApplications
    /\ output' = Append(output, CallExtractIdsFromVisualizationObject(input.arg))
    /\ UNCHANGED <<engineVars, input>>

ExtractIdsFromDashboard ==
    /\ input.fn = "extract_ids_from_dashboard"
    /\ Len(output) < MaxApplications
    /\ output' = Append(output, extract_ids_from_dashboard(input.arg))
    /\ UNCHANGED <<engineVars, input>>

\* a slip: the placeholder stored for the ids the cache holds nothing for
GeneratePromptFilling ==
    /\ input.fn = "generate_prompt"
    /\ Len(output) < MaxApplications
    /\ output' = Append(output,
                        generate_prompt(input.arg.element,
                                        input.arg.description_type,
                                        descriptions_dict,
                                        input.arg.extracted_ids))
    /\ descriptions_dict' =
          [k \in DOMAIN descriptions_dict
                 \cup {input.arg.extracted_ids[n] :
                          n \in DOMAIN input.arg.extracted_ids} |->
              IF k \in DOMAIN descriptions_dict THEN descriptions_dict[k]
              ELSE NoDescriptionAvailable]
    /\ UNCHANGED <<remote, files, descriptions_file, batch_size, pc, phase,
                   file_paths, batch_i, batch_j, data, queue, call, faults,
                   run, prior, finished, entered, last, calls, written, input,
                   environ, stack>>

GeneratePrompt ==
    /\ input.fn = "generate_prompt"
    /\ Len(output) < MaxApplications
    /\ output' = Append(output,
                        generate_prompt(input.arg.element,
                                        input.arg.description_type,
                                        descriptions_dict,
                                        input.arg.extracted_ids))
    /\ UNCHANGED <<engineVars, input>>

NextPure ==
    \/ ExtractIdsFromMaql
    \/ ExtractIdsFromVisualizationObject
    \/ ExtractIdsFromDashboard
    \/ GeneratePrompt

SpecPure == InitPure /\ [][NextPure]_vars

(***************************************************************************)
(* C21.  extract_ids_from_maql.                                            *)
(***************************************************************************)
\* s[i..e-1] is a reference: a category, a slash and a name of letters,
\* digits and underscores, with no word character right before or after it
IsReference(s, i, e) ==
    \E c \in DOMAIN Categories :
        LET n0 == i + Len(Categories[c]) + 1
        IN  /\ n0 < e
            /\ e <= Len(s) + 1
            /\ SubSeq(s, i, n0 - 1) = Categories[c] \o <<"/">>
            /\ i = 1 \/ s[i - 1] \notin WordChars
            /\ \A k \in n0..(e - 1) : s[k] \in NameChars
            /\ e = Len(s) + 1 \/ s[e] \notin WordChars

References(s) ==
    {r \in (1..Len(s)) \X (1..(Len(s) + 1)) : IsReference(s, r[1], r[2])}

\* the references a scan from the left finds: those that do not begin
\* inside one found before them
Scanned(s) ==
    CHOOSE C \in SUBSET References(s) :
        \A r \in References(s) :
            r \in C <=> ~\E q \in C : q[1] < r[1] /\ r[1] < q[2]

\* C21: extract_ids_from_maql returns the references of the expression that
\* a scan from the left finds, each as it stands in the expression, in the
\* order of their places and as often as they occur, and nothing else: none
\* gives the empty list, and 'metric/total_sales + fact/unit_price -
\* metric/discount' gives [metric/total_sales, fact/unit_price,
\* metric/discount].
C21_MaqlReferencesInOrder ==
    (input # <<>> /\ input.fn = "extract_ids_from_maql" /\ output # <<>>) =>
        LET s     == input.arg
            found == Scanned(s)
        IN  /\ Len(output[1]) = Cardinality(found)
            /\ \A r \in found :
                  output[1][1 + Cardinality({q \in found : q[1] < r[1]})] =
                      SubSeq(s, r[1], r[2] - 1)
            /\ s = MaqlExample =>
                  output[1] = <<<<"m","e","t","r","i","c","/","t","o","t","a","l","_","s","a","l","e","s">>,
                                <<"f","a","c","t","/","u","n","i","t","_","p","r","i","c","e">>,
                                <<"m","e","t","r","i","c","/","d","i","s","c","o","u","n","t">>>>

\* C21, witness: an expression with the same reference twice gave it twice
C21_Witness ==
    /\ input # <<>>
    /\ input.fn = "extract_ids_from_maql"
    /\ output = << <<<<"m","e","t","r","i","c","/","a">>, <<"m","e","t","r","i","c","/","a">>>> >>

(***************************************************************************)
(* C22, C23.  extract_ids_from_visualization_object.                       *)
(***************************************************************************)
\* how many ids an item holds
Emits(item) ==
    CASE item.kind = "measureDefinition"     -> 1
      [] item.kind = "previousPeriodMeasure" -> Len(item.dateDataSets) + 1
      [] OTHER                               -> 0

\* the places of a payload that hold an id to emit: <<1, bucket, item, k>> for
\* the k-th id of an item, <<2, filter, 0, 1>> for a relative-date filter
Emitting(content) ==
    LET buckets == Get(content, "buckets", <<>>)
        filters == Get(content, "filters", <<>>)
    IN  UNION {UNION {{<<1, b, i, k>> : k \in 1..Emits(buckets[b][i])} :
                         i \in DOMAIN buckets[b]} : b \in DOMAIN buckets}
        \cup {<<2, f, 0, 1>> : f \in {g \in DOMAIN filters :
                                       filters[g].kind = "relativeDateFilter"}}

\* the id at such a place
EmittedAt(content, t) ==
    IF t[1] = 2 THEN content.filters[t[2]].id
    ELSE LET item == content.buckets[t[2]][t[3]]
         IN  IF item.kind = "previousPeriodMeasure"
                /\ t[4] <= Len(item.dateDataSets)
             THEN item.dateDataSets[t[4]]
             ELSE item.id

\* document order
Precedes(t, u) ==
    \E n \in 1..4 : t[n] < u[n] /\ \A m \in 1..(n - 1) : t[m] = u[m]

\* C22: extract_ids_from_visualization_object emits ids in document order:
\* for each bucket item in order, a direct measure reference gives the
\* referenced id, a previous-period measure gives its date-dimension ids in
\* list order and then its measure id; after the buckets each relative-date
\* filter gives the id it targets; duplicates stay.  One previous-period item
\* over dataset/date and metric/revenue gives [dataset/date, metric/revenue].
C22_VisualizationIdsInDocumentOrder ==
    (/\ input # <<>>
     /\ input.fn = "extract_ids_from_visualization_object"
     /\ output # <<>>
     /\ ~output[1].raised) =>
        LET content == input.arg
            places  == Emitting(content)
            ids     == output[1].identifiers
        IN  /\ Len(ids) = Cardinality(places)
            /\ \A t \in places :
                  ids[1 + Cardinality({u \in places : Precedes(u, t)})] =
                      EmittedAt(content, t)
            /\ content = [version |-> "2",
                          buckets |-> << <<PreviousPeriodItem(<<ID_date>>,
                                                              ID_revenue)>> >>]
                  => ids = <<ID_date, ID_revenue>>

\* C22, witness: a previous-period item, a direct measure of an id already
\* emitted and a relative-date filter on the same date dimension gave the
\* ids in that order, with the duplicates
C22_Witness ==
    /\ input # <<>>
    /\ input.fn = "extract_ids_from_visualization_object"
    /\ output # <<>>
    /\ ~output[1].raised
    /\ output[1].identifiers =
          <<ID_date, ID_metric_a, ID_metric_a, ID_metric_a, ID_date>>

\* C23: reference extraction from a visualization payload never produces an
\* error: for every payload, without buckets or filters or with a
\* recognized key whose nested fields are missing, it returns a list.
C23_ExtractionNeverRaises ==
    (/\ input # <<>>
     /\ input.fn = "extract_ids_from_visualization_object"
     /\ output # <<>>) => ~output[1].raised

(***************************************************************************)
(* C24.  extract_ids_from_dashboard.                                       *)
(***************************************************************************)
\* the places of a layout that hold an id to emit: <<section, item, 0>> for
\* the insight of the widget, <<section, item, k>> for its k-th drill
Targets(layout) ==
    LET sections == Get(layout, "sections", <<>>)
    IN  UNION {UNION {
            LET widget == sections[s][i]
            IN  {<<s, i, 0>> : x \in {y \in {1} : /\ widget.insight # <<>>
                                                  /\ widget.insight[1] # <<>>}}
                \cup {<<s, i, k>> : k \in {d \in DOMAIN widget.drills :
                                             widget.drills[d] # <<>>}}
            : i \in DOMAIN sections[s]} : s \in DOMAIN sections}

TargetAt(layout, t) ==
    LET widget == layout.sections[t[1]][t[2]]
    IN  IF t[3] = 0 THEN widget.insight[1] ELSE widget.drills[t[3]]

\* the order of the walk
WalkedBefore(t, u) ==
    \E n \in 1..3 : t[n] < u[n] /\ \A m \in 1..(n - 1) : t[m] = u[m]

\* C24: extract_ids_from_dashboard walks sections, then items, then the
\* widget: for each widget the id of its insight if it has one, then the id
\* of each drill target in order; the ids of different widgets come in
\* section and item order; an empty or missing layout gives the empty list.
C24_DashboardIdsInWalkOrder ==
    (/\ input # <<>>
     /\ input.fn = "extract_ids_from_dashboard"
     /\ output # <<>>) =>
        LET layout == input.arg
            places == Targets(layout)
        IN  /\ Len(output[1]) = Cardinality(places)
            /\ \A t \in places :
                  output[1][1 + Cardinality({u \in places : WalkedBefore(u, t)})]
                      = TargetAt(layout, t)
            /\ layout = EmptyLayout => output[1] = <<>>

\* C24, witness: a widget with drills only and then one with an insight
\* and a drill gave the drill targets of the first, then the insight and
\* the drill target of the second
C24_Witness ==
    /\ input # <<>>
    /\ input.fn = "extract_ids_from_dashboard"
    /\ Len(Get(input.arg, "sections", <<>>)) = 2
    /\ output = << <<ID_dash, ID_viz, ID_viz, ID_dash>> >>

Entities(d) ==
    1 + Len(d.attributes) + Len(d.facts)
    + Len(Flatten([i \in DOMAIN d.attributes |-> d.attributes[i].labels]))

RECURSIVE Sum(_)
Sum(ns) == IF ns = <<>> THEN 0 ELSE Head(ns) + Sum(Tail(ns))

\* the directories of the layout
Directories ==
    <<"date_instances", "datasets", "metrics", "visualization_objects",
      "analytical_dashboards">>

\* every id of the tree belongs to a single entity
SingleEntityPerId(tree) ==
    Cardinality(EntityIds(tree)) =
        Sum(Flatten([k \in DOMAIN Directories |->
                        [n \in DOMAIN tree[Directories[k]] |->
                            Entities(tree[Directories[k]][n][1])]]))

\* C26: within one run, on a document tree in which every id belongs to a
\* single entity, at most one generation call is issued per entity id, though
\* every metric document is enumerated in the non-dependent and in the
\* dependent phase.
C26_AtMostOneCallPerId ==
    SingleEntityPerId(remote) =>
        \A i, j \in DOMAIN calls : calls[i] = calls[j] => i = j

\* C26, witness: a metric document went through both metric phases, a call
\* was issued for it, and the cache holds nothing for it afterwards
C26_Witness ==
    /\ SingleEntityPerId(remote)
    /\ \E path \in MetricPaths :
          /\ [phase |-> FileTypeIndex("non-metric"), path |-> path] \in finished
          /\ [phase |-> FileTypeIndex("metric"), path |-> path] \in finished
          /\ \E i \in DOMAIN calls : calls[i] = remote[path.dir][path.n][1].id
          /\ remote[path.dir][path.n][1].id \notin DOMAIN descriptions_dict

(***************************************************************************)
(* C27.  The cascade of a dataset document.                                *)
(***************************************************************************)
\* the places of the entities of a dataset document
ElementPaths(d) ==
    {<<>>}
    \cup {<<"attributes", i>> : i \in DOMAIN d.attributes}
    \cup UNION {{<<"attributes", i, "labels", j>> :
                    j \in DOMAIN d.attributes[i].labels} :
                   i \in DOMAIN d.attributes}
    \cup {<<"facts", k>> : k \in DOMAIN d.facts}

\* how many entities the attributes before the i-th hold, labels included
AttributesBefore(d, i) ==
    Sum([a \in 1..(i - 1) |-> 1 + Len(d.attributes[a].labels)])

\* the place of an entity in the cascade: the dataset, each attribute and
\* right after it its labels, then the facts
CascadeRank(d, path) ==
    CASE path = <<>>       -> 0
      [] path[1] = "facts" ->
            AttributesBefore(d, Len(d.attributes) + 1) + path[2]
      [] Len(path) = 2     -> AttributesBefore(d, path[2]) + 1
      [] OTHER             -> AttributesBefore(d, path[2]) + 1 + path[4]

\* the entities of the document at path that have entered the transition
\* in the dataset phase
EnteredOf(path, set) ==
    {e.element : e \in {x \in set : /\ x.phase = FileTypeIndex("dataset")
                                    /\ x.path = path}}

DatasetPaths == {path \in AllPaths : path.dir = "datasets"}

\* C27: in the dataset phase the transition runs on the dataset itself, then
\* on each attribute and right after it on its labels, then on each fact, all
\* before the document is written and before the next dataset document is
\* started; every nested attribute, label and fact of every dataset that was
\* read has finished its transition before the non-dependent metric phase
\* begins.
C27_DatasetCascade ==
    [][/\ (entered' # entered /\ yaml_file.dir = "datasets") =>
            \E path \in ElementPaths(data[1]) :
               /\ EnteredOf(yaml_file, entered') =
                     EnteredOf(yaml_file, entered) \cup {path}
               /\ EnteredOf(yaml_file, entered) =
                     {q \in ElementPaths(data[1]) :
                         CascadeRank(data[1], q) < CascadeRank(data[1], path)}
       /\ (written' # written /\ yaml_file.dir = "datasets") =>
             /\ EnteredOf(yaml_file, entered) = ElementPaths(data[1])
             /\ ~InTransition
       /\ (data = <<>> /\ data' # <<>> /\ yaml_file.dir = "datasets") =>
             \A path \in DatasetPaths :
                path.n < yaml_file.n =>
                   /\ [phase |-> phase, path |-> path] \in finished
                   /\ EnteredOf(path, entered) \in
                         {{}, ElementPaths(remote[path.dir][path.n][1])}
       /\ phase' > FileTypeIndex("dataset") =>
             \A path \in DatasetPaths :
                /\ [phase |-> FileTypeIndex("dataset"), path |-> path]
                      \in finished'
                /\ EnteredOf(path, entered') \in
                      {{}, ElementPaths(remote[path.dir][path.n][1])}]_vars

\* C27, witness: the second dataset document is in work after the first,
\* with its attribute, label and fact, went through the cascade and was
\* written
C27_Witness ==
    /\ InProcessFile
    /\ yaml_file = [dir |-> "datasets", n |-> 2]
    /\ LET first == [dir |-> "datasets", n |-> 1]
       IN  /\ Cardinality(EnteredOf(first, entered)) = 4
           /\ [phase |-> FileTypeIndex("dataset"), path |-> first] \in written

(***************************************************************************)
(* C28.  Batching.                                                         *)
(***************************************************************************)
\* the number of files process_file has returned from in the phase
Processed(set) == Cardinality({f \in set : f.phase = phase})

\* the loops of process_files_in_batches are running
InBatches == pc \in {"loop", "element", "calling"}

\* C28: for every batch_size >= 1 and every phase the files of
\* get_file_paths are processed each once and in the order of enumeration:
\* the file in work is the one after those already processed, whatever the
\* batch size, the loops end when all are processed, and each step of the
\* loops of which batch and place in it are the only trace is the return
\* from one file.
C28_BatchingPreservesBehaviour ==
    [][/\ batch_size >= 1
       /\ InBatches =>
             /\ Processed(finished) <= Len(file_paths)
             /\ batch_i < Len(file_paths) =>
                   Processed(finished) = batch_i + batch_j
             /\ batch_i < Len(file_paths) <=>
                   Processed(finished) < Len(file_paths)
             /\ batch_i < Len(file_paths) =>
                   yaml_file = file_paths[Processed(finished) + 1]
             /\ file_paths = get_file_paths(files, FileTypes[phase])
       /\ (InBatches /\ <<batch_i, batch_j>>' # <<batch_i, batch_j>>) =>
             /\ finished' = finished \cup {[phase |-> phase, path |-> yaml_file]}
             /\ Processed(finished') = Processed(finished) + 1
       /\ (InBatches /\ pc' \notin {"loop", "element", "calling", "aborted"}) =>
             Processed(finished) = Len(file_paths)]_vars

\* C28, witness: with batches of one file the second file of a phase is in
\* work, in the second batch
C28_Witness ==
    /\ batch_size = 1
    /\ InProcessFile
    /\ batch_i = 1
    /\ batch_j = 0
    /\ Processed(finished) = 1

(***************************************************************************)
(* C29.  Chains of dependent metrics.                                      *)
(***************************************************************************)
\* the metric at path refers to the metric with this id
RefersTo(path, id) ==
    LET ids == extract_ids_from_maql(remote[path.dir][path.n][1].maql)
    IN  \E k \in DOMAIN ids : ids[k] = id

\* C29: within the dependent-metric phase the metric documents are taken in
\* the order of enumeration with no regard to what they refer to: while one
\* is in work, those enumerated before it are done and those enumerated
\* after it have not entered the transition.  (That a dependent metric is
\* called for while a dependent metric it refers to has no cache entry and
\* is annotated later in the phase is the reachable state C29_Witness.)
C29_DependentMetricsInEnumerationOrder ==
    (phase = FileTypeIndex("metric") /\ InProcessFile) =>
        \A path \in MetricPaths :
            /\ path.n < yaml_file.n =>
                  [phase |-> phase, path |-> path] \in finished
            /\ path.n > yaml_file.n =>
                  [phase |-> phase, path |-> path, element |-> <<>>]
                      \notin entered

\* C29, witness: the call for the dependent metric c was issued before the
\* call for the dependent metric b that c refers to, and b was committed
\* to the cache after that, in the same phase
C29_Witness ==
    /\ phase = FileTypeIndex("metric")
    /\ \E c, b \in MetricPaths :
          LET id_c == remote[c.dir][c.n][1].id
              id_b == remote[b.dir][b.n][1].id
          IN  /\ c.n < b.n
              /\ RefersTo(c, id_b)
              /\ EntityPhase(c) = FileTypeIndex("metric")
              /\ EntityPhase(b) = FileTypeIndex("metric")
              /\ \E i, j \in DOMAIN calls :
                    i < j /\ calls[i] = id_c /\ calls[j] = id_b
              /\ id_b \in DOMAIN descriptions_dict
              /\ last # <<>>
              /\ last[1].id = id_b
              /\ last[1].phase = phase
              /\ last[1].outcome = "committed"

(***************************************************************************)
(* C30.  No reentrancy into the annotation flow.                           *)
(***************************************************************************)
\* the entity the transition is running on
InHand == ElementAt(data[1], Head(queue).path)

\* C30: while the per-entity transition runs on an entity, the only
\* generation call issued and the only cache key written are for that
\* entity, the only description set is its own, and nothing is generated,
\* loaded or committed for an entity it refers to.
C30_NoReentrancy ==
    [][InTransition =>
          /\ calls' # calls =>
                /\ calls' = Append(calls, InHand.id)
                /\ call'[1].id = InHand.id
          /\ (call # <<>> /\ call' # <<>>) => call' = call
          /\ \A k \in DOMAIN descriptions_dict' :
                \/ k = InHand.id
                \/ /\ k \in DOMAIN descriptions_dict
                   /\ descriptions_dict'[k] = descriptions_dict[k]
          /\ DOMAIN descriptions_dict \subseteq DOMAIN descriptions_dict'
          /\ data' # data =>
                \E description \in {Strip(content) : content \in Replies}
                                   \cup {descriptions_dict[k] :
                                           k \in DOMAIN descriptions_dict} :
                    data' = <<SetDescription(data[1], Head(queue).path,
                                             description)>>
          /\ files' = files
          /\ descriptions_file' = descriptions_file
          /\ written' = written]_vars

\* C30, witness: the transition of a visualization object ended with its
\* description committed while an entity it refers to has no cache entry
C30_Witness ==
    /\ last # <<>>
    /\ last[1].element_type = "visualization object"
    /\ last[1].outcome = "committed"
    /\ last[1].id \in DOMAIN descriptions_dict
    /\ \E id \in {ID_metric_a, ID_metric_b, ID_date} :
          id \notin DOMAIN descriptions_dict

(***************************************************************************)
(* C31.  Termination.                                                      *)
(***************************************************************************)
\* every document of every phase, once
Enumerated ==
    UNION {{[phase |-> k, path |-> get_file_paths(remote, FileTypes[k])[n]] :
               n \in DOMAIN get_file_paths(remote, FileTypes[k])} :
              k \in DOMAIN FileTypes}

\* the metrics of the workspace refer to each other in a cycle of two
Cyclic ==
    \E p, q \in {path \in AllPaths : path.dir = "metrics"} :
        LET ids_p == extract_ids_from_maql(remote[p.dir][p.n][1].maql)
            ids_q == extract_ids_from_maql(remote[q.dir][q.n][1].maql)
        IN  /\ p # q
            /\ \E k \in DOMAIN ids_p : ids_p[k] = remote[q.dir][q.n][1].id
            /\ \E k \in DOMAIN ids_q : ids_q[k] = remote[p.dir][p.n][1].id

WrittenPaths == {w.path : w \in written}

\* the step is the write of the document in work, or the attempt at it
WritingStep == pc = "element" /\ queue = <<>>

\* C32, as claimed: when a fatal error aborts the run, every document
\* written earlier in the run keeps the content that was written, and the
\* abort writes neither a document nor the cache.
C32_NoRollbackOnAbort ==
    [][(pc # "aborted" /\ pc' = "aborted") =>
          /\ \A path \in WrittenPaths :
                files'[path.dir][path.n] = files[path.dir][path.n]
          /\ descriptions_dict' = descriptions_dict
          /\ descriptions_file' = descriptions_file \/ pc = "save_descriptions"]_vars

\* what does hold of an abort: a document written earlier changes only by
\* a write of that document, the only file an abort may leave changed is the
\* one whose write failed, and the cache and the record of the writes are
\* as they were
C32_OnlyTheFailedWriteLoses ==
    [][/\ \A path \in WrittenPaths :
             files'[path.dir][path.n] # files[path.dir][path.n] =>
                 /\ WritingStep
                 /\ yaml_file = path
                 /\ \/ files'[path.dir][path.n] = data
                    \/ /\ pc' = "aborted"
                       /\ files'[path.dir][path.n] = <<>>
       /\ (pc # "aborted" /\ pc' = "aborted") =>
             /\ files' # files =>
                   /\ WritingStep
                   /\ files' = [files EXCEPT ![yaml_file.dir][yaml_file.n] = <<>>]
             /\ descriptions_dict' = descriptions_dict
             /\ written' = written
             /\ descriptions_file' = descriptions_file
                   \/ pc = "save_descriptions"]_vars

(***************************************************************************)
(* C33.  The prompt of a metric.                                           *)
(***************************************************************************)
MetricTypes == {"non-metric", "metric"}

\* the document in work as the workspace holds it
InWork == remote[yaml_file.dir][yaml_file.n][1]

\* C33: the prompt sent for a non-dependent or dependent metric shows the
\* entity's own fields and the text of its expression and no context line:
\* it is the same whatever the cache holds.
C33_MetricPromptIgnoresTheCache ==
    (pc = "calling" /\ call[1].update.element_type \in MetricTypes) =>
        /\ call[1].prompt.context = <<>>
        /\ call[1].prompt.id = PromptId(InWork)
        /\ call[1].prompt.maql = InWork.maql
        /\ \A cache \in SeedMaps \cup {descriptions_dict} :
              call[1].prompt =
                  generate_prompt(InWork, call[1].update.element_type, cache,
                                  extract_ids_from_maql(InWork.maql))

\* C33, witness: the call for a dependent metric is in flight while the
\* cache holds the description of a metric its expression refers to
C33_Witness ==
    /\ pc = "calling"
    /\ call[1].update.element_type = "metric"
    /\ \E k \in DOMAIN extract_ids_from_maql(InWork.maql) :
          extract_ids_from_maql(InWork.maql)[k] \in DOMAIN descriptions_dict
(***************************************************************************)
(* C34: a configuration error is fatal at startup.                         *)
(***************************************************************************)
\* a required setting is absent from the environment
SettingMissing == \E key \in Settings : environ[key] = <<>>

\* C34: when one of hostname, api_token, llm_api_token and workspace_id is
\* missing, load_config exits the process before the engine is constructed:
\* every step of such a run leaves the process at the start of main() or
\* exited, with nothing materialized, no phase entered, no generation call
\* issued, and descriptions.yaml and the remote workspace as they were.
C34_MissingSettingIsFatalAtStartup ==
    [][SettingMissing =>
          /\ pc' \in {"main", "aborted"}
          /\ files' = EmptyTree
          /\ phase' = 0
          /\ entered' = {}
          /\ calls' = <<>>
          /\ written' = {}
          /\ descriptions_file' = descriptions_file
          /\ descriptions_dict' = descriptions_dict
          /\ remote' = remote]_vars

\* load_config exited a process that had every setting but workspace_id
C34_Witness ==
    /\ pc = "aborted"
    /\ phase = 0
    /\ environ["WORKSPACE_ID"] = <<>>
    /\ \A key \in Settings \ {"WORKSPACE_ID"} : environ[key] # <<>>
    /\ descriptions_file.state = "ok"

(***************************************************************************)
(* C35: an empty generated text is a soft failure of the entity.           *)
(***************************************************************************)
\* the element the latest call of _update_element_description was about,
\* as the document in work holds it after the step
ElementLeft == ElementAt(data'[1], last'[1].element)

\* C35: when the generation call returns an empty text, for an entity of
\* any category, the description of the entity stays as it was read, the
\* cache gets no entry (the id stays absent from it), no further call is
\* issued for the entity, and the run goes on with the next entity.
C35_EmptyTextIsSoftFailure ==
    [][(pc = "calling" /\ pc' # "aborted" /\ last'[1].description = <<>>) =>
          /\ last'[1].outcome = "invalid"
          /\ last'[1].id = call[1].id
          /\ ElementLeft.description = last'[1].before
          /\ data' = data
          /\ descriptions_dict' = descriptions_dict
          /\ last'[1].id \notin DOMAIN descriptions_dict'
          /\ calls' = calls
          /\ call' = <<>>
          /\ queue' = Tail(queue)
          /\ pc' = "element"]_vars

\* the call for a dataset returned an empty text, and the run went on to
\* the end
C35_Witness ==
    /\ pc = "exited"
    /\ \E done \in entered :
          /\ done.phase = 2
          /\ done.element = <<>>
          /\ files[done.path.dir][done.path.n][1].id
                 \notin DOMAIN descriptions_dict
    /\ Len(calls) > 1

(***************************************************************************)
(* C36: the documents and the cache agree.                                 *)
(***************************************************************************)
\* a call of _update_element_description returns with this step
TransitionReturns == last' # last

\* the entities of the document at a path of the tree
EntityPathsAt(tree, path) ==
    IF path.dir = "datasets" THEN ElementPaths(tree[path.dir][path.n][1])
    ELSE {<<>>}

\* the documents save_yaml_file wrote and that hold a document
WrittenDocuments ==
    {path \in WrittenPaths : files[path.dir][path.n] # <<>>}

\* the run went through save_descriptions
Completed == pc \in {"generated", "exited"}

\* when the transition returns for an entity of id i: the cache holds i and
\* the description of the entity is the cached one, or the cache does not
\* hold i and the description is the one that was read
ConsistentOnReturn ==
    TransitionReturns =>
        LET i == last'[1].id
            e == ElementAt(data'[1], last'[1].element)
        IN  \/ /\ i \in DOMAIN descriptions_dict'
               /\ e.description = <<descriptions_dict'[i]>>
            \/ /\ i \notin DOMAIN descriptions_dict'
               /\ e.description = last'[1].before

\* after a completed run every entity of a written document whose id is in
\* descriptions.yaml carries the description stored there
ConsistentAtEnd ==
    Completed =>
        \A path \in WrittenDocuments :
            \A element \in EntityPathsAt(files, path) :
                LET e == ElementAt(files[path.dir][path.n][1], element)
                IN  e.id \in DOMAIN descriptions_file.map =>
                        e.description = <<descriptions_file.map[e.id]>>

\* C36, as claimed: the transition returns with the document and the cache
\* in agreement on the entity, and at the end of a completed run every
\* written entity whose id is in the persisted cache carries the persisted
\* description.
C36_DocumentCacheConsistency ==
    [][ConsistentOnReturn]_vars /\ [](ConsistentAtEnd)

\* what holds of C36: every return of the transition leaves the document
\* in work and the cache in agreement on the entity
C36_OnReturn == [][ConsistentOnReturn]_vars

\* the entities the transition ran on in this run
WasEntered(path, element) ==
    \E e \in entered : e.path = path /\ e.element = element

\* what holds of C36 at the end: the entities the transition ran on carry
\* the persisted description
C36_AtEndEntered ==
    Completed =>
        \A path \in WrittenDocuments :
            \A element \in EntityPathsAt(files, path) :
                LET e == ElementAt(files[path.dir][path.n][1], element)
                IN  (WasEntered(path, element)
                     /\ e.id \in DOMAIN descriptions_file.map) =>
                        e.description = <<descriptions_file.map[e.id]>>

(***************************************************************************)
(* C37: the load of the cache never fails the run.                         *)
(***************************************************************************)
\* descriptions.yaml is absent, empty, or cannot be read or parsed
NothingToLoad == descriptions_file.state \in {"absent", "empty", "corrupt"}

\* the ids generation calls were issued for in this run
CalledIds == {calls[n] : n \in DOMAIN calls}

\* the texts the generation service may have returned
ReplyTexts == {Strip(content) : content \in Replies}

\* C37: with every setting given, the constructor always leaves an engine
\* ready to run, and its cache is empty when descriptions.yaml is absent,
\* empty or unreadable; when the file was unreadable, save_descriptions at
\* the end of the run replaces it with the cache, which holds only entries
\* committed in this run.
C37_CacheLoadNeverFails ==
    [][/\ (pc = "main" /\ ~SettingMissing) =>
             /\ pc' = "constructed"
             /\ NothingToLoad => descriptions_dict' = EmptyMap
       /\ (/\ pc = "save_descriptions"
           /\ pc' = "generated"
           /\ descriptions_file.state = "corrupt") =>
             /\ descriptions_file' = [state |-> "ok", map |-> descriptions_dict]
             /\ DOMAIN descriptions_dict \subseteq CalledIds
             /\ \A k \in DOMAIN descriptions_dict :
                    descriptions_dict[k] \in ReplyTexts \ {<<>>}]_vars

\* a run that found descriptions.yaml unreadable is about to persist the
\* entries it committed
C37_Witness ==
    /\ pc = "save_descriptions"
    /\ descriptions_file.state = "corrupt"
    /\ descriptions_dict # EmptyMap
    /\ DOMAIN descriptions_dict = CalledIds

(***************************************************************************)
(* C38: the push of the annotated layout to the remote workspace.          *)
(***************************************************************************)
\* ENABLE_LOAD_WORKSPACE is not given, or is true, 1 or yes in any case
PushEnabled ==
    environ["ENABLE_LOAD_WORKSPACE"] \in
        {<<>>, <<Text_True>>, <<Text_1>>, <<Text_YES>>}

\* C38: the remote workspace changes only by the push of main(), which
\* comes after generate_descriptions returned with descriptions.yaml
\* holding the cache, only when the configuration enables it, and then the
\* remote workspace gets the layout as the run left it; an aborted process
\* leaves the remote workspace as it was; and the step after
\* generate_descriptions always ends the process regularly, whether the
\* push was made, was disabled or failed.
C38_PushOnlyAfterPersistence ==
    [][/\ remote' # remote =>
             /\ pc = "generated"
             /\ pc' = "exited"
             /\ phase = Len(FileTypes)
             /\ descriptions_file = [state |-> "ok", map |-> descriptions_dict]
             /\ PushEnabled
             /\ remote' = files
       /\ pc' = "aborted" => remote' = CyclicTree
       /\ pc = "generated" => pc' = "exited"]_vars

\* the layout was pushed at the end of a run enabled with the text YES
C38_Witness ==
    /\ pc = "exited"
    /\ environ["ENABLE_LOAD_WORKSPACE"] = <<Text_YES>>
    /\ remote = files
    /\ remote # CyclicTree
    /\ descriptions_file = [state |-> "ok", map |-> descriptions_dict]

(***************************************************************************)
(* lmm_descriptor.py, the legacy variant: generate_metric_description,     *)
(* which calls itself for the metrics an expression refers to.             *)
(***************************************************************************)
\* the depth at which the interpreter raises RecursionError
RecursionLimit == 4

\* metric_id.split('/')[-1]
LastSegment(id) ==
    LET slashes == {i \in DOMAIN id : id[i] = "/"}
    IN  IF slashes = {} THEN id
        ELSE LET m == CHOOSE i \in slashes : \A j \in slashes : j <= i
             IN  SubSeq(id, m + 1, Len(id))

\* ref_id.startswith('metric/')
IsMetricRef(ref_id) ==
    /\ Len(ref_id) >= Len(MetricPrefix)
    /\ SubSeq(ref_id, 1, Len(MetricPrefix)) = MetricPrefix

LegacyIds == <<ID_metric_a, ID_metric_b, ID_metric_c>>

LegacyMaqls == {MAQL_fact, MAQL_a_plus_x, MAQL_b, MAQL_c}

\* the metric documents of analytics_model/metrics: one to three metrics,
\* each with one of the expressions
LegacyLayouts ==
    {[n \in DOMAIN ks |-> [Doc(LegacyIds[ks[n]], <<OldText>>) EXCEPT
                              !.maql = ms[n]]] :
        <<ks, ms>> \in
            UNION {{<<k, m>> \in [1..len -> DOMAIN LegacyIds]
                                 \X [1..len -> LegacyMaqls] :
                       \A i, j \in 1..len : i < j => k[i] < k[j]} :
                   len \in 1..Len(LegacyIds)}}

LegacyCaches ==
    {EmptyMap} \cup {[k \in {id} |-> OldText] : id \in {ID_metric_a, ID_metric_b}}

\* find_metric_file_by_id: the place of the first file named after the last
\* segment of the id, a file being named after the id of its document;
\* 0 for FileNotFoundError
find_metric_file_by_id(metric_id, metrics) ==
    LET found == {n \in DOMAIN metrics :
                     LastSegment(metrics[n][1].id) = LastSegment(metric_id)}
    IN  IF found = {} THEN 0
        ELSE CHOOSE n \in found : \A m \in found : n <= m

\* a call of generate_metric_description at the head of its loop
Frame(metric) ==
    [data |-> metric,
     referenced_ids |-> extract_ids_from_maql(metric.maql),
     context |-> <<>>]

\* the loop of the frame went through its first reference: the line of the
\* context is self.descriptions_dict.get(ref_id, ...)
Advanced(frame, descriptions) ==
    LET ref_id == Head(frame.referenced_ids)
    IN  [frame EXCEPT
            !.referenced_ids = Tail(@),
            !.context = Append(@,
                [id |-> ref_id,
                 description |-> IF ref_id \in DOMAIN descriptions
                                 THEN <<descriptions[ref_id]>> ELSE <<>>])]

Top == stack[Len(stack)]

Callers == SubSeq(stack, 1, Len(stack) - 1)

\* update_metric_description has called generate_metric_description for a
\* metric that is not in the cache
InitLegacy ==
    /\ remote = EmptyTree
    /\ \E docs \in LegacyLayouts : files = [EmptyTree EXCEPT !.metrics = FilesOf(docs)]
    /\ descriptions_dict \in LegacyCaches
    /\ \E n \in DOMAIN files.metrics :
          /\ files.metrics[n][1].id \notin DOMAIN descriptions_dict
          /\ stack = <<Frame(files.metrics[n][1])>>
    /\ descriptions_file = [state |-> "absent", map |-> EmptyMap]
    /\ batch_size = DefaultBatchSize
    /\ pc = "legacy"
    /\ phase = 0
    /\ file_paths = <<>>
    /\ batch_i = 0
    /\ batch_j = 0
    /\ data = <<>>
    /\ queue = <<>>
    /\ call = <<>>
    /\ faults = 0
    /\ run = 1
    /\ prior = <<>>
    /\ finished = {}
    /\ entered = {}
    /\ last = <<>>
    /\ calls = <<>>
    /\ written = {}
    /\ input = <<>>
    /\ output = <<>>
    /\ environ = FullEnviron

legacyRest ==
    <<remote, files, descriptions_file, batch_size, phase, file_paths, batch_i,
      batch_j, data, queue, call, faults, run, prior, finished, entered, last,
      written, input, output, environ>>

\* one turn of `for ref_id in referenced_ids`: a metric that is not in the
\* cache is loaded and generate_metric_description called on it
GenerateMetricDescriptionLoop ==
    /\ pc = "legacy"
    /\ stack # <<>>
    /\ Top.referenced_ids # <<>>
    /\ LET ref_id == Head(Top.referenced_ids)
           n      == find_metric_file_by_id(ref_id, files.metrics)
       IN  IF IsMetricRef(ref_id) /\ ref_id \notin DOMAIN descriptions_dict
           THEN IF n = 0
                THEN /\ pc' = "FileNotFoundError"
                     /\ UNCHANGED stack
                ELSE IF files.metrics[n][1].id \in DOMAIN descriptions_dict
                THEN /\ stack' = Callers \o <<Advanced(Top, descriptions_dict)>>
                     /\ UNCHANGED pc
                ELSE IF Len(stack) >= RecursionLimit
                THEN /\ pc' = "RecursionError"
                     /\ UNCHANGED stack
                ELSE /\ stack' = Append(stack, Frame(files.metrics[n][1]))
                     /\ UNCHANGED pc
           ELSE /\ stack' = Callers \o <<Advanced(Top, descriptions_dict)>>
                /\ UNCHANGED pc
    /\ UNCHANGED <<descriptions_dict, calls, legacyRest>>

\* after the loop: the generation call, the entry of the cache, the return
\* to the caller, whose loop goes on
GenerateMetricDescriptionCall ==
    /\ pc = "legacy"
    /\ stack # <<>>
    /\ Top.referenced_ids = <<>>
    /\ calls' = Append(calls, Top.data.id)
    /\ \/ /\ Exit1
          /\ UNCHANGED <<descriptions_dict, stack>>
       \/ \E content \in Replies :
            LET descriptions == Put(descriptions_dict, Top.data.id, Strip(content))
            IN  /\ descriptions_dict' = descriptions
                /\ IF Callers = <<>>
                   THEN /\ stack' = <<>>
                        /\ pc' = "returned"
                   ELSE /\ stack' = SubSeq(Callers, 1, Len(Callers) - 1)
                                    \o <<Advanced(Callers[Len(Callers)],
                                                  descriptions)>>
                        /\ UNCHANGED pc
    /\ UNCHANGED legacyRest

NextLegacy ==
    \/ GenerateMetricDescriptionLoop
    \/ GenerateMetricDescriptionCall

SpecLegacy == InitLegacy /\ [][NextLegacy]_vars

(***************************************************************************)
(* C39: the recursion of the legacy metric generator.                      *)
(***************************************************************************)
\* the ids whose generation is in progress, outermost first
InProgress == [n \in DOMAIN stack |-> stack[n].data.id]

\* C39, as claimed: generate_metric_description is never entered for an id
\* whose generation is already in progress, and the recursion ends without
\* running out of depth, also for metrics that refer to each other and are
\* not in the cache.
C39_RecursionNeverReenters ==
    /\ \A i, j \in DOMAIN InProgress : i # j => InProgress[i] # InProgress[j]
    /\ pc # "RecursionError"

\* what holds of C39: when the call for a metric is issued, every metric its
\* expression refers to is in the cache
C39_ReferencedFirst ==
    (pc = "legacy" /\ stack # <<>> /\ Top.referenced_ids = <<>>) =>
        \A n \in DOMAIN Top.context :
            IsMetricRef(Top.context[n].id) =>
                Top.context[n].id \in DOMAIN descriptions_dict

====
